---- MODULE Spec2Model ----
(***************************************************************************)
(* A model of src/utils/jsonProcessor.ts: the extractor of editable text   *)
(* fields of an Elementor document (extractEditableFields), the rebuilder  *)
(* that writes edited values back into a deep copy of the document         *)
(* (rebuildJsonWithUpdatedFields), and the extract / modify / rebuild /    *)
(* re-extract pipeline that testJsonProcessing drives.                     *)
(*                                                                         *)
(* JavaScript values live in two forms.  A TREE is an immutable JSON value *)
(* (what JSON.parse returns, seen by value).  The HEAP holds the mutable   *)
(* objects and arrays, addressed by references, so that aliasing between   *)
(* the original document and the rebuilt one is visible.                   *)
(***************************************************************************)
EXTENDS Integers, Sequences, FiniteSets, TLC

(***************************************************************************)
(* Strings.  A JavaScript string is a sequence of characters.  The         *)
(* alphabet holds the digits, the blank, the three path punctuation        *)
(* characters and word characters; a word such as "widgets" stands for one *)
(* word character of the alphabet (its inner letters are never inspected   *)
(* by the code).                                                           *)
(***************************************************************************)
Digits == <<"0", "1", "2", "3", "4", "5", "6", "7", "8", "9">>

IsDigit(ch) == \E i \in 1..Len(Digits) : Digits[i] = ch

DigitVal(ch) == (CHOOSE i \in 1..Len(Digits) : Digits[i] = ch) - 1

IsSpace(ch) == ch = " "

IsPunct(ch) == ch \in {".", "[", "]"}

\* A string of one word character, e.g. W("title") is the string "title".
W(word) == <<word>>

\* All characters of s[from..to] are digits, and there is at least one (\d+).
AllDigits(s) == Len(s) > 0 /\ \A i \in 1..Len(s) : IsDigit(s[i])

RECURSIVE DigitsValue(_)
DigitsValue(s) ==
  IF s = <<>> THEN 0
  ELSE DigitsValue(SubSeq(s, 1, Len(s) - 1)) * 10 + DigitVal(s[Len(s)])

\* String(n) for a non-negative integer, as the template literal `${index}` gives it.
RECURSIVE NumStr(_)
NumStr(n) ==
  IF n < 10 THEN <<Digits[n + 1]>>
  ELSE NumStr(n \div 10) \o <<Digits[(n % 10) + 1]>>

\* The string as it is, blanks kept.
Untrimmed(s) == s

\* String.prototype.trim
RECURSIVE trim(_)
trim(s) ==
  IF s = <<>> THEN s
  ELSE IF IsSpace(s[1]) THEN trim(Tail(s))
  ELSE IF IsSpace(s[Len(s)]) THEN trim(SubSeq(s, 1, Len(s) - 1))
  ELSE s

\* String.prototype.split('.')
RECURSIVE SplitFrom(_, _, _)
SplitFrom(s, i, cur) ==
  IF i > Len(s) THEN <<cur>>
  ELSE IF s[i] = "." THEN <<cur>> \o SplitFrom(s, i + 1, <<>>)
  ELSE SplitFrom(s, i + 1, Append(cur, s[i]))

split(s) == SplitFrom(s, 1, <<>>)

\* Array.prototype.join('.')
RECURSIVE join(_)
join(parts) ==
  IF parts = <<>> THEN <<>>
  ELSE IF Len(parts) = 1 THEN parts[1]
  ELSE parts[1] \o <<".">> \o join(Tail(parts))

\* parseInt(s) is a number (not NaN): after leading blanks, s starts with a digit.
RECURSIVE ParsesAsInt(_)
ParsesAsInt(s) ==
  IF s = <<>> THEN FALSE
  ELSE IF IsSpace(s[1]) THEN ParsesAsInt(Tail(s))
  ELSE IsDigit(s[1])

(***************************************************************************)
(* Values.  Every value is a record of one shape, so that any two values   *)
(* can be compared.  k is the kind; s the characters of a string; n a      *)
(* number, a boolean (0/1) or the address of a reference; keys/vals the    *)
(* own properties of an object in property order; elems the elements of an *)
(* array (a hole or an undefined element is Undefined).                    *)
(***************************************************************************)
Prim(kind, str, num) ==
  [k |-> kind, s |-> str, n |-> num, keys |-> <<>>, vals |-> <<>>, elems |-> <<>>]

Undefined == Prim("undef", <<>>, 0)

Null == Prim("null", <<>>, 0)

False == Prim("bool", <<>>, 0)

True == Prim("bool", <<>>, 1)

Num(i) == Prim("num", <<>>, i)

Str(chars) == Prim("str", chars, 0)

Ref(a) == Prim("ref", <<>>, a)

Obj(ks, vs) ==
  [k |-> "obj", s |-> <<>>, n |-> 0, keys |-> ks, vals |-> vs, elems |-> <<>>]

Arr(es) ==
  [k |-> "arr", s |-> <<>>, n |-> 0, keys |-> <<>>, vals |-> <<>>, elems |-> es]

EmptyObj == Obj(<<>>, <<>>)

\* JavaScript truthiness.
Truthy(v) ==
  CASE v.k \in {"undef", "null"} -> FALSE
    [] v.k \in {"bool", "num"} -> v.n # 0
    [] v.k = "str" -> v.s # <<>>
    [] OTHER -> TRUE

\* The position of key in keys, 0 when absent.
KeyIndex(keys, key) ==
  IF \E i \in 1..Len(keys) : keys[i] = key
  THEN CHOOSE i \in 1..Len(keys) : keys[i] = key
  ELSE 0

\* A canonical array index: "0", or digits without a leading zero (lodash isIndex).
isIndex(key) == AllDigits(key) /\ (Len(key) = 1 \/ key[1] # "0")

(***************************************************************************)
(* Property reads.  PropOfNode reads container[key] (or primitive[key]) on *)
(* a container record; reading a property of null or undefined throws,     *)
(* which the callers test with IsNullish before they read.                 *)
(***************************************************************************)
IsNullish(v) == v.k \in {"undef", "null"}

PropOfNode(c, key) ==
  CASE c.k = "obj" ->
         IF KeyIndex(c.keys, key) = 0 THEN Undefined ELSE c.vals[KeyIndex(c.keys, key)]
    [] c.k = "arr" ->
         IF isIndex(key)
         THEN IF DigitsValue(key) < Len(c.elems) THEN c.elems[DigitsValue(key) + 1]
              ELSE Undefined
         ELSE IF key = W("length") THEN Num(Len(c.elems))
         ELSE IF KeyIndex(c.keys, key) = 0 THEN Undefined
         ELSE c.vals[KeyIndex(c.keys, key)]
    [] c.k = "str" ->
         IF isIndex(key)
         THEN IF DigitsValue(key) < Len(c.s) THEN Str(<<c.s[DigitsValue(key) + 1]>>)
              ELSE Undefined
         ELSE IF key = W("length") THEN Num(Len(c.s))
         ELSE Undefined
    [] OTHER -> Undefined

\* Array.isArray on a tree.
isArray(v) == v.k = "arr"

(***************************************************************************)
(* extractEditableFields.  Every operator returns [threw, out]: threw says *)
(* that a TypeError was raised (the outer catch then raises                *)
(* "Failed to extract editable fields from JSON"), out is what was pushed  *)
(* to `result` in order.                                                   *)
(***************************************************************************)
Done(records) == [threw |-> FALSE, out |-> records]

Threw == [threw |-> TRUE, out |-> <<>>]

\* a; b : b runs only when a did not throw.
Then(a, b) == IF a.threw THEN Threw ELSE IF b.threw THEN Threw ELSE Done(a.out \o b.out)

EditableField(type, path, value) ==
  Obj(<<W("type"), W("path"), W("value")>>, <<Str(type), Str(path), value>>)

\* `${currentPath}.settings.${key}`
SettingsPath(currentPath, key) == currentPath \o <<".">> \o W("settings") \o <<".">> \o key

\* A case that names its record after the key it reads, not after the widget.
TypedByKey(widget, currentPath, type, key) ==
  LET settings == PropOfNode(widget, W("settings"))
      target == IF IsNullish(settings) THEN Undefined ELSE PropOfNode(settings, key)
  IN IF ~Truthy(target) THEN Done(<<>>)
     ELSE IF target.k # "str" THEN Threw
     ELSE IF trim(target.s) # <<>>
          THEN Done(<<EditableField(key, SettingsPath(currentPath, key), target)>>)
          ELSE Done(<<>>)

\* case "heading" / "text-editor" / "button": one record for settings[key].
KnownWidgetField(widget, currentPath, type, key) ==
  LET settings == PropOfNode(widget, W("settings"))
      target == IF IsNullish(settings) THEN Undefined ELSE PropOfNode(settings, key)
  IN IF ~Truthy(target) THEN Done(<<>>)
     ELSE IF target.k # "str" THEN Threw       \* target.trim is not a function
     ELSE IF trim(target.s) # <<>>
          THEN Done(<<EditableField(type, SettingsPath(currentPath, key), target)>>)
          ELSE Done(<<>>)

GenericKeys == {W("title"), W("text"), W("content"), W("description"), W("caption")}

\* default: the entries of settings, in Object.entries order (a primitive has
\* none, and the index entries of an array or a string never match a key).
RECURSIVE GenericEntries(_, _, _)
GenericEntries(settings, currentPath, i) ==
  IF i > Len(settings.keys) THEN <<>>
  ELSE LET key == settings.keys[i]
           value == settings.vals[i]
           hit == value.k = "str" /\ key \in GenericKeys /\ trim(value.s) # <<>>
       IN (IF hit THEN <<EditableField(key, SettingsPath(currentPath, key), value)>>
           ELSE <<>>)
          \o GenericEntries(settings, currentPath, i + 1)

GenericWidgetFields(widget, currentPath) ==
  LET settings == PropOfNode(widget, W("settings"))
  IN IF Truthy(settings)
     THEN Done(GenericEntries(settings, currentPath, 1))
     ELSE Done(<<>>)

\* The divider alone.
OnlyDivider == {Str(W("divider"))}

SkipTypes == {Str(W("divider")), Str(W("spacer"))}

\* The callback of widgets.forEach up to the recursion: [threw, out, skip], skip
\* being the early `return` taken for a divider or a spacer.
WidgetRecords(widget, currentPath) ==
  IF IsNullish(widget) THEN [threw |-> TRUE, out |-> <<>>, skip |-> FALSE]
  ELSE LET widgetType == PropOfNode(widget, W("widgetType"))
           own == CASE widgetType = Str(W("heading")) ->
                         KnownWidgetField(widget, currentPath, W("heading"), W("title"))
                    [] widgetType = Str(W("text-editor")) ->
                         KnownWidgetField(widget, currentPath, W("text-editor"), W("editor"))
                    [] widgetType = Str(W("button")) ->
                         KnownWidgetField(widget, currentPath, W("button"), W("text"))
                    [] OTHER -> GenericWidgetFields(widget, currentPath)
       IN IF ~Truthy(widgetType) THEN [threw |-> FALSE, out |-> <<>>, skip |-> FALSE]
          ELSE IF widgetType \in SkipTypes THEN [threw |-> FALSE, out |-> <<>>, skip |-> TRUE]
          ELSE [threw |-> own.threw, out |-> own.out, skip |-> FALSE]

\* A path that names the first element whatever the index.
FirstElementPath(basePath, index) == basePath \o <<"[", "0", "]">>

\* `${basePath}[${index}]`, or `[${index}]` for an empty basePath.
CurrentPath(basePath, index) == basePath \o <<"[">> \o NumStr(index) \o <<"]">>

RECURSIVE processWidgets(_, _)
RECURSIVE ForEachWidget(_, _, _)
\* The forEach of processWidgets from element i (1-based) on; holes are not visited.
ForEachWidget(widgets, basePath, i) ==
  IF i > Len(widgets.elems) THEN Done(<<>>)
  ELSE LET widget == widgets.elems[i]
           currentPath == CurrentPath(basePath, i - 1)
           own == WidgetRecords(widget, currentPath)
           inElements ==
             IF isArray(PropOfNode(widget, W("elements")))
             THEN processWidgets(PropOfNode(widget, W("elements")),
                                 currentPath \o <<".">> \o W("elements"))
             ELSE Done(<<>>)
           inWidgets ==
             IF isArray(PropOfNode(widget, W("widgets")))
             THEN processWidgets(PropOfNode(widget, W("widgets")),
                                 currentPath \o <<".">> \o W("widgets"))
             ELSE Done(<<>>)
           visit ==
             IF widget.k = "undef" THEN Done(<<>>)
             ELSE IF own.threw THEN Threw
             ELSE IF own.skip THEN Done(<<>>)
             ELSE Then(Done(own.out), Then(inElements, inWidgets))
       IN Then(visit, ForEachWidget(widgets, basePath, i + 1))

processWidgets(widgets, basePath) ==
  IF ~isArray(widgets) THEN Done(<<>>) ELSE ForEachWidget(widgets, basePath, 1)

extractEditableFields(json) ==
  IF IsNullish(json) THEN Threw
  ELSE IF isArray(PropOfNode(json, W("widgets")))
       THEN processWidgets(PropOfNode(json, W("widgets")), W("widgets"))
  ELSE IF isArray(PropOfNode(json, W("elements")))
       THEN processWidgets(PropOfNode(json, W("elements")), W("elements"))
  ELSE Done(<<>>)

(***************************************************************************)
(* The first variant of the extractor (unnamed/part_000, lines 11-105):    *)
(* the widget cases are those of processWidgets above; the paths, the      *)
(* recursion and the start differ.                                         *)
(***************************************************************************)
\* `${basePath}.widgets[${index}]`, or `widgets[${index}]` for an empty basePath.
CurrentPath1(basePath, index) ==
  (IF basePath = <<>> THEN <<>> ELSE basePath \o <<".">>)
     \o W("widgets") \o <<"[">> \o NumStr(index) \o <<"]">>

RECURSIVE processWidgets1(_, _)
RECURSIVE ForEachWidget1(_, _, _)
\* The forEach of the first variant from element i (1-based) on: `elements` is
\* entered when it is truthy, `widgets` only when `elements` is not.
ForEachWidget1(widgets, basePath, i) ==
  IF i > Len(widgets.elems) THEN Done(<<>>)
  ELSE LET widget == widgets.elems[i]
           currentPath == CurrentPath1(basePath, i - 1)
           own == WidgetRecords(widget, currentPath)
           inside ==
             IF Truthy(PropOfNode(widget, W("elements")))
             THEN processWidgets1(PropOfNode(widget, W("elements")),
                                  currentPath \o <<".">> \o W("elements"))
             ELSE IF Truthy(PropOfNode(widget, W("widgets")))
             THEN processWidgets1(PropOfNode(widget, W("widgets")),
                                  currentPath \o <<".">> \o W("widgets"))
             ELSE Done(<<>>)
           visit ==
             IF own.threw THEN Threw
             ELSE IF own.skip THEN Done(<<>>)
             ELSE Then(Done(own.out), inside)
       IN Then(visit, ForEachWidget1(widgets, basePath, i + 1))

\* widgets.forEach(...) without a test of widgets: what is not an array has no
\* forEach, and the call raises a TypeError.
processWidgets1(widgets, basePath) ==
  IF ~isArray(widgets) THEN Threw ELSE ForEachWidget1(widgets, basePath, 1)

extractEditableFields1(json) ==
  IF IsNullish(json) THEN Threw
  ELSE IF Truthy(PropOfNode(json, W("widgets")))
       THEN processWidgets1(PropOfNode(json, W("widgets")), <<>>)
  ELSE IF Truthy(PropOfNode(json, W("elements")))
       THEN processWidgets1(PropOfNode(json, W("elements")), <<>>)
  ELSE Done(<<>>)

(***************************************************************************)
(* The second variant of the extractor (unnamed/part_000, lines 160-295):  *)
(* a single widget or a whole page.                                        *)
(***************************************************************************)
\* obj && (obj.widgetType || (obj.settings && typeof obj.settings === 'object'))
isElementorWidget(obj) ==
  /\ Truthy(obj)
  /\ \/ Truthy(PropOfNode(obj, W("widgetType")))
     \/ PropOfNode(obj, W("settings")).k \in {"obj", "arr"}

\* path ? `${path}.${rest}` : rest
Under(path, rest) == IF path = <<>> THEN rest ELSE path \o <<".">> \o rest

\* case "heading" / "text-editor" / "button" of processWidget.
KnownSetting(widget, path, type, key) ==
  LET settings == PropOfNode(widget, W("settings"))
      target == IF IsNullish(settings) THEN Undefined ELSE PropOfNode(settings, key)
  IN IF ~Truthy(target) THEN Done(<<>>)
     ELSE IF target.k # "str" THEN Threw       \* target.trim is not a function
     ELSE IF trim(target.s) # <<>>
          THEN Done(<<EditableField(type, Under(path, W("settings") \o <<".">> \o key), target)>>)
          ELSE Done(<<>>)

commonFields ==
  <<W("title"), W("text"), W("editor"), W("content"), W("description"),
    W("caption"), W("button_text"), W("heading"), W("sub_heading")>>

RECURSIVE FieldsOfKeys(_, _, _, _)
\* for (const key of keys): a record for every key, from the i-th on, under
\* which the holder has a string that is not blank; the path is `${path}.${key}`
\* or the key alone.
FieldsOfKeys(holder, path, keys, i) ==
  IF i > Len(keys) THEN <<>>
  ELSE LET value == PropOfNode(holder, keys[i])
           hit == value.k = "str" /\ trim(value.s) # <<>>
       IN (IF hit THEN <<EditableField(keys[i], Under(path, keys[i]), value)>> ELSE <<>>)
          \o FieldsOfKeys(holder, path, keys, i + 1)

processGenericWidgetSettings(widget, path) ==
  LET settings == PropOfNode(widget, W("settings"))
  IN IF ~Truthy(settings) THEN Done(<<>>)
     ELSE Done(FieldsOfKeys(settings, Under(path, W("settings")), commonFields, 1))

\* The keys read from a node that has no widgetType.
BareKeys == <<W("title"), W("editor"), W("text"), W("content"), W("description"), W("caption")>>

processWidget(widget, path) ==
  IF IsNullish(widget) THEN Threw
  ELSE LET widgetType == PropOfNode(widget, W("widgetType"))
       IN IF Truthy(widgetType)
          THEN CASE widgetType = Str(W("heading")) ->
                      KnownSetting(widget, path, W("heading"), W("title"))
                 [] widgetType = Str(W("text-editor")) ->
                      KnownSetting(widget, path, W("text-editor"), W("editor"))
                 [] widgetType = Str(W("button")) ->
                      KnownSetting(widget, path, W("button"), W("text"))
                 [] OTHER -> processGenericWidgetSettings(widget, path)
          ELSE IF \/ Truthy(PropOfNode(widget, W("title")))
                  \/ Truthy(PropOfNode(widget, W("editor")))
                  \/ Truthy(PropOfNode(widget, W("text")))
          THEN Done(FieldsOfKeys(widget, path, BareKeys, 1))
          ELSE Done(<<>>)

RECURSIVE processWidgets2(_, _)
RECURSIVE ForEachWidget2(_, _, _)
\* The forEach of the inner processWidgets from element i (1-based) on.
ForEachWidget2(widgets, basePath, i) ==
  IF i > Len(widgets.elems) THEN Done(<<>>)
  ELSE LET widget == widgets.elems[i]
           currentPath == CurrentPath(basePath, i - 1)
           inElements ==
             IF isArray(PropOfNode(widget, W("elements")))
             THEN processWidgets2(PropOfNode(widget, W("elements")),
                                  currentPath \o <<".">> \o W("elements"))
             ELSE Done(<<>>)
           inWidgets ==
             IF isArray(PropOfNode(widget, W("widgets")))
             THEN processWidgets2(PropOfNode(widget, W("widgets")),
                                  currentPath \o <<".">> \o W("widgets"))
             ELSE Done(<<>>)
       IN Then(Then(processWidget(widget, currentPath), Then(inElements, inWidgets)),
               ForEachWidget2(widgets, basePath, i + 1))

processWidgets2(widgets, basePath) ==
  IF ~isArray(widgets) THEN Done(<<>>) ELSE ForEachWidget2(widgets, basePath, 1)

extractEditableFields2(json) ==
  IF isElementorWidget(json) THEN processWidget(json, <<>>)
  ELSE IF IsNullish(json) THEN Threw
  ELSE IF \/ Truthy(PropOfNode(json, W("widgets")))
          \/ Truthy(PropOfNode(json, W("elements")))
       THEN IF isArray(PropOfNode(json, W("widgets")))
            THEN processWidgets2(PropOfNode(json, W("widgets")), W("widgets"))
            ELSE IF isArray(PropOfNode(json, W("elements")))
            THEN processWidgets2(PropOfNode(json, W("elements")), W("elements"))
            ELSE Done(<<>>)
  ELSE Done(<<>>)

(***************************************************************************)
(* The heap: a sequence of containers, the address of a container being    *)
(* its position.  A container's vals and elems hold primitives and         *)
(* references.                                                             *)
(***************************************************************************)
IsTreeContainer(tree) == tree.k \in {"obj", "arr"}

RECURSIVE Size(_)
RECURSIVE SizeOfAll(_)
\* The number of containers of a tree.
Size(tree) ==
  IF ~IsTreeContainer(tree) THEN 0
  ELSE 1 + SizeOfAll(tree.vals) + SizeOfAll(tree.elems)

SizeOfAll(trees) == IF trees = <<>> THEN 0 ELSE Size(Head(trees)) + SizeOfAll(Tail(trees))

\* The value of a tree built at the addresses base+1 .. base+Size(tree): a
\* container lies at the last of them, after the containers inside it.
BuiltAt(tree, base) == IF IsTreeContainer(tree) THEN Ref(base + Size(tree)) ELSE tree

RECURSIVE Build(_, _)
RECURSIVE BuildAll(_, _, _)
\* The containers of a tree, built at the addresses base+1 .. base+Size(tree).
Build(tree, base) ==
  IF ~IsTreeContainer(tree) THEN <<>>
  ELSE LET ebase == base + SizeOfAll(tree.vals)
           node == [tree EXCEPT
                      !.vals = [i \in 1..Len(tree.vals) |->
                                  BuiltAt(tree.vals[i], base + SizeOfAll(SubSeq(tree.vals, 1, i - 1)))],
                      !.elems = [i \in 1..Len(tree.elems) |->
                                  BuiltAt(tree.elems[i], ebase + SizeOfAll(SubSeq(tree.elems, 1, i - 1)))]]
       IN BuildAll(tree.vals, base, 1) \o BuildAll(tree.elems, ebase, 1) \o <<node>>

BuildAll(trees, base, i) ==
  IF i > Len(trees) THEN <<>>
  ELSE Build(trees[i], base) \o BuildAll(trees, base + Size(trees[i]), i + 1)

\* The objects JSON.parse creates for a tree: [h |-> the new heap, v |-> the value].
Alloc(h, tree) == [h |-> h \o Build(tree, Len(h)), v |-> BuiltAt(tree, Len(h))]

RECURSIVE Deref(_, _)
\* The tree a value denotes in heap h (what JSON would show, by value).
Deref(h, v) ==
  IF v.k # "ref" THEN v
  ELSE LET node == h[v.n]
       IN [node EXCEPT !.vals = [i \in 1..Len(node.vals) |-> Deref(h, node.vals[i])],
                       !.elems = [i \in 1..Len(node.elems) |-> Deref(h, node.elems[i])]]

RECURSIVE Reach(_, _)
\* The addresses of the containers reachable from a value.
Reach(h, v) ==
  IF v.k # "ref" THEN {}
  ELSE {v.n}
       \cup UNION {Reach(h, h[v.n].vals[i]) : i \in 1..Len(h[v.n].vals)}
       \cup UNION {Reach(h, h[v.n].elems[i]) : i \in 1..Len(h[v.n].elems)}

\* object[key] for a heap value or a primitive that is not null or undefined.
PropOf(h, v, key) == IF v.k = "ref" THEN PropOfNode(h[v.n], key) ELSE PropOfNode(v, key)

\* isObject of lodash: an object or an array (typeof 'object', not null).
isObject(v) == v.k = "ref"

(***************************************************************************)
(* cloneDeep of lodash on JSON data: primitives are returned as they are;  *)
(* an array is copied element by element (named properties of an array are *)
(* not copied), an object property by property.                            *)
(***************************************************************************)
RECURSIVE CopyOf(_, _)
\* The copy of a value, by value: the elements of an array and the own properties
\* of an object are copied in turn.
CopyOf(h, v) ==
  IF v.k # "ref" THEN v
  ELSE LET node == h[v.n]
       IN IF node.k = "arr"
          THEN Arr([i \in 1..Len(node.elems) |-> CopyOf(h, node.elems[i])])
          ELSE Obj(node.keys, [i \in 1..Len(node.vals) |-> CopyOf(h, node.vals[i])])

\* A copy of the top container alone, which shares what it holds with the original.
ShallowClone(h, v) ==
  IF v.k # "ref" THEN [h |-> h, v |-> v]
  ELSE [h |-> Append(h, h[v.n]), v |-> Ref(Len(h) + 1)]

\* [h, v]: the heap with the fresh containers of the copy, and the copy.
cloneDeep(h, v) == Alloc(h, CopyOf(h, v))

(***************************************************************************)
(* Paths.  resolvePath rewrites every [N] to .N; stringToPath, isKey and   *)
(* castPath are how lodash turns a path string into a sequence of keys.    *)
(***************************************************************************)
\* The end of the run of digits that starts at s[i]; i - 1 when s[i] is no digit.
RECURSIVE DigitsEnd(_, _)
DigitsEnd(s, i) ==
  IF i <= Len(s) /\ IsDigit(s[i]) THEN DigitsEnd(s, i + 1) ELSE i - 1

\* /\[(\d+)\]/ matches at s[i]: the position of its closing bracket, else 0.
BracketIndexEnd(s, i) ==
  IF i <= Len(s) /\ s[i] = "["
     /\ DigitsEnd(s, i + 1) >= i + 1
     /\ DigitsEnd(s, i + 1) + 1 <= Len(s)
     /\ s[DigitsEnd(s, i + 1) + 1] = "]"
  THEN DigitsEnd(s, i + 1) + 1
  ELSE 0

RECURSIVE ReplaceBrackets(_, _)
ReplaceBrackets(s, i) ==
  IF i > Len(s) THEN <<>>
  ELSE IF BracketIndexEnd(s, i) > 0
       THEN <<".">> \o SubSeq(s, i + 1, BracketIndexEnd(s, i) - 1)
                    \o ReplaceBrackets(s, BracketIndexEnd(s, i) + 1)
  ELSE <<s[i]>> \o ReplaceBrackets(s, i + 1)

\* path.replace(/\[(\d+)\]/g, '.$1')
resolvePath(path) == ReplaceBrackets(path, 1)

\* The end of the run of non-punctuation characters that starts at s[i].
RECURSIVE RunEnd(_, _)
RunEnd(s, i) ==
  IF i <= Len(s) /\ ~IsPunct(s[i]) THEN RunEnd(s, i + 1) ELSE i - 1

\* The length of a separator ("." or "[]") at s[i], 0 when there is none.
SepLen(s, i) ==
  IF i > Len(s) THEN 0
  ELSE IF s[i] = "." THEN 1
  ELSE IF s[i] = "[" /\ i + 1 <= Len(s) /\ s[i + 1] = "]" THEN 2
  ELSE 0

\* (?=(?:\.|\[\])(?:\.|\[\]|$)) holds at s[i]: an empty key lies there.
EmptyKeyAt(s, i) ==
  SepLen(s, i) > 0 /\ (i + SepLen(s, i) > Len(s) \/ SepLen(s, i + SepLen(s, i)) > 0)

RECURSIVE ScanPath(_, _)
ScanPath(s, i) ==
  IF i > Len(s) THEN <<>>
  ELSE IF ~IsPunct(s[i]) THEN <<SubSeq(s, i, RunEnd(s, i))>> \o ScanPath(s, RunEnd(s, i) + 1)
  ELSE IF BracketIndexEnd(s, i) > 0
       THEN <<SubSeq(s, i + 1, BracketIndexEnd(s, i) - 1)>>
            \o ScanPath(s, BracketIndexEnd(s, i) + 1)
  ELSE IF EmptyKeyAt(s, i) THEN << <<>> >> \o ScanPath(s, i + 1)
  ELSE ScanPath(s, i + 1)

stringToPath(s) ==
  (IF Len(s) > 0 /\ s[1] = "." THEN << <<>> >> ELSE <<>>) \o ScanPath(s, 1)

\* reIsDeepProp: the string holds a "." or a bracket pair.
IsDeepProp(s) ==
  \E i \in 1..Len(s) :
     \/ s[i] = "."
     \/ /\ s[i] = "["
        /\ \E j \in (i + 1)..Len(s) :
              s[j] = "]" /\ \A m \in (i + 1)..(j - 1) : s[m] \notin {"[", "]"}

\* key in Object(v)
HasProp(h, v, key) ==
  LET c == IF v.k = "ref" THEN h[v.n] ELSE v
  IN CASE c.k = "obj" -> KeyIndex(c.keys, key) > 0
       [] c.k = "arr" -> \/ isIndex(key) /\ DigitsValue(key) < Len(c.elems)
                              /\ c.elems[DigitsValue(key) + 1].k # "undef"
                         \/ key = W("length")
                         \/ KeyIndex(c.keys, key) > 0
       [] c.k = "str" -> \/ isIndex(key) /\ DigitsValue(key) < Len(c.s)
                         \/ key = W("length")
       [] OTHER -> FALSE

isKey(h, object, path) == ~IsDeepProp(path) \/ (~IsNullish(object) /\ HasProp(h, object, path))

castPath(h, object, path) == IF isKey(h, object, path) THEN <<path>> ELSE stringToPath(path)

RECURSIVE baseGet(_, _, _, _)
\* The while loop of baseGet from keys[i] on.
baseGet(h, object, keys, i) ==
  IF i > Len(keys) THEN object
  ELSE IF IsNullish(object) THEN Undefined
  ELSE baseGet(h, PropOf(h, object, keys[i]), keys, i + 1)

\* get(object, path) of lodash
get(h, object, path) ==
  IF IsNullish(object) THEN Undefined ELSE baseGet(h, object, castPath(h, object, path), 1)

(***************************************************************************)
(* set of lodash.  Every operator returns [h, threw]: the heap as the      *)
(* call left it, and whether it raised (a RangeError from array.length).   *)
(***************************************************************************)
\* A sequence of n holes.
Holes(n) == [i \in 1..n |-> Undefined]

\* The position at which a new own property is inserted: integer keys come first,
\* in ascending order, the other keys follow in insertion order.
InsertAt(keys, key) ==
  IF isIndex(key)
  THEN 1 + Cardinality({i \in 1..Len(keys) :
                           isIndex(keys[i]) /\ DigitsValue(keys[i]) < DigitsValue(key)})
  ELSE Len(keys) + 1

InsertSeq(seq, at, x) == SubSeq(seq, 1, at - 1) \o <<x>> \o SubSeq(seq, at, Len(seq))

\* node with own property key set to value (a property that is not an array element).
WithProp(node, key, value) ==
  IF KeyIndex(node.keys, key) > 0
  THEN [node EXCEPT !.vals[KeyIndex(node.keys, key)] = value]
  ELSE [node EXCEPT !.keys = InsertSeq(node.keys, InsertAt(node.keys, key), key),
                    !.vals = InsertSeq(node.vals, InsertAt(node.keys, key), value)]

\* ToNumber(value) as an array length: -1 when it is no valid length (RangeError).
ToLength(value) ==
  CASE value.k = "null" -> 0
    [] value.k \in {"bool", "num"} -> IF value.n >= 0 THEN value.n ELSE -1
    [] value.k = "str" -> IF trim(value.s) = <<>> THEN 0
                          ELSE IF AllDigits(trim(value.s)) THEN DigitsValue(trim(value.s))
                          ELSE -1
    [] OTHER -> -1

\* array.length = n
Resized(node, n) ==
  [node EXCEPT !.elems = IF n <= Len(node.elems) THEN SubSeq(node.elems, 1, n)
                         ELSE node.elems \o Holes(n - Len(node.elems))]

\* array[index] = value
WithElem(node, index, value) ==
  IF index < Len(node.elems) THEN [node EXCEPT !.elems[index + 1] = value]
  ELSE [node EXCEPT !.elems = node.elems \o Holes(index - Len(node.elems)) \o <<value>>]

\* assignValue(object, key, value) on the container at address a.
assignValue(h, a, key, value) ==
  LET node == h[a]
  IN IF HasProp(h, Ref(a), key) /\ PropOfNode(node, key) = value
     THEN [h |-> h, threw |-> FALSE]
     ELSE IF node.k = "arr" /\ isIndex(key)
          THEN [h |-> [h EXCEPT ![a] = WithElem(node, DigitsValue(key), value)],
                threw |-> FALSE]
     ELSE IF node.k = "arr" /\ key = W("length")
          THEN IF ToLength(value) < 0 THEN [h |-> h, threw |-> TRUE]
               ELSE [h |-> [h EXCEPT ![a] = Resized(node, ToLength(value))],
                     threw |-> FALSE]
     ELSE [h |-> [h EXCEPT ![a] = WithProp(node, key, value)], threw |-> FALSE]

\* The container baseSet creates for a missing step: [] before an index, {} otherwise.
NewContainer(nextKey) == IF isIndex(nextKey) THEN Arr(<<>>) ELSE EmptyObj

RECURSIVE baseSet(_, _, _, _, _)
\* The while loop of baseSet from keys[i] on; nested is a reference.
baseSet(h, nested, keys, i, value) ==
  IF i = Len(keys) THEN assignValue(h, nested.n, keys[i], value)
  ELSE LET objValue == PropOf(h, nested, keys[i])
       IN IF isObject(objValue) THEN baseSet(h, objValue, keys, i + 1, value)
          ELSE LET h1 == Append(h, NewContainer(keys[i + 1]))
                   made == Ref(Len(h) + 1)
                   put == assignValue(h1, nested.n, keys[i], made)
               IN IF put.threw THEN put
                  ELSE baseSet(put.h, made, keys, i + 1, value)

\* set(object, path, value) of lodash
set(h, object, path, value) ==
  IF ~isObject(object) THEN [h |-> h, threw |-> FALSE]
  ELSE baseSet(h, object, castPath(h, object, path), 1, value)

(***************************************************************************)
(* rebuildJsonWithUpdatedFields.                                           *)
(***************************************************************************)
\* The default value the repair walk creates: [] when parseInt of the next part
\* is a number, {} otherwise (pathParts[i+1] || '').
DefaultValue(pathParts, i) ==
  IF i + 2 <= Len(pathParts) /\ ParsesAsInt(pathParts[i + 2]) THEN Arr(<<>>) ELSE EmptyObj

RECURSIVE RepairOverwriting(_, _, _, _)
\* A walk that puts its empty container at every step of the path, whether the
\* step resolves or not.
RepairOverwriting(h, resultJson, pathParts, i) ==
  IF i >= Len(pathParts) THEN [h |-> h, threw |-> FALSE]
  ELSE LET made == set(Append(h, DefaultValue(pathParts, i)), resultJson,
                       join(SubSeq(pathParts, 1, i + 1)), Ref(Len(h) + 1))
       IN IF made.threw THEN made
          ELSE RepairOverwriting(made.h, resultJson, pathParts, i + 1)

RECURSIVE RepairWalk(_, _, _, _)
\* The for loop over pathParts from index i (0-based) on: [h, threw].
RepairWalk(h, resultJson, pathParts, i) ==
  IF i >= Len(pathParts) THEN [h |-> h, threw |-> FALSE]
  ELSE LET testPath == join(SubSeq(pathParts, 1, i + 1))
           parentPath == join(SubSeq(pathParts, 1, i))
           parent == get(h, resultJson, parentPath)
           key == pathParts[i + 1]
           h1 == Append(h, DefaultValue(pathParts, i))
           made == set(h1, resultJson, testPath, Ref(Len(h) + 1))
       IN IF get(h, resultJson, testPath) # Undefined
          THEN RepairWalk(h, resultJson, pathParts, i + 1)
          ELSE IF ~(Truthy(parent) /\ parent.k = "ref") THEN [h |-> h, threw |-> FALSE]
          ELSE IF ParsesAsInt(key) /\ h[parent.n].k # "arr" THEN [h |-> h, threw |-> FALSE]
          ELSE IF made.threw THEN made
          ELSE RepairWalk(made.h, resultJson, pathParts, i + 1)

\* A callback that writes where the path resolves and only warns where it does
\* not: no repair walk, no last set.
TryResolvedOnly(h, resultJson, field) ==
  IF IsNullish(field) THEN [h |-> h, raised |-> TRUE]
  ELSE LET path == PropOfNode(field, W("path"))
           value == PropOfNode(field, W("value"))
           direct == set(h, resultJson, resolvePath(path.s), value)
       IN IF path.k # "str" THEN [h |-> h, raised |-> TRUE]
          ELSE IF get(h, resultJson, resolvePath(path.s)) # Undefined
               THEN [h |-> direct.h, raised |-> direct.threw]
          ELSE [h |-> h, raised |-> FALSE]

\* The try block of the forEach callback for one field: [h, raised], the heap it
\* leaves and whether something was raised out of it.  An error of the last set
\* is caught by the try around it (raised is FALSE); an error of the first set
\* or of the repair walk leaves the block.
TryField(h, resultJson, field) ==
  IF IsNullish(field) THEN [h |-> h, raised |-> TRUE]
  ELSE LET path == PropOfNode(field, W("path"))
           value == PropOfNode(field, W("value"))
           normalizedPath == resolvePath(path.s)
           direct == set(h, resultJson, normalizedPath, value)
           repaired == RepairWalk(h, resultJson, split(normalizedPath), 0)
       IN IF path.k # "str" THEN [h |-> h, raised |-> TRUE]
          ELSE IF get(h, resultJson, normalizedPath) # Undefined
               THEN [h |-> direct.h, raised |-> direct.threw]
          ELSE IF repaired.threw THEN [h |-> repaired.h, raised |-> TRUE]
          ELSE [h |-> set(repaired.h, resultJson, normalizedPath, value).h, raised |-> FALSE]

\* The forEach callback for one field: what is raised in the try block is caught
\* and logged, and the heap is left as it is.
ApplyField(h, resultJson, field) == TryField(h, resultJson, field).h

RECURSIVE ApplyUntilRaised(_, _, _, _)
\* The fields applied in turn up to the first one that raises, the rest left out.
ApplyUntilRaised(h, resultJson, fields, i) ==
  IF i > Len(fields) THEN h
  ELSE IF TryField(h, resultJson, fields[i]).raised THEN h
  ELSE ApplyUntilRaised(ApplyField(h, resultJson, fields[i]), resultJson, fields, i + 1)

RECURSIVE ApplyFields(_, _, _, _)
\* updatedFields.forEach from element i (1-based) on.
ApplyFields(h, resultJson, fields, i) ==
  IF i > Len(fields) THEN h
  ELSE ApplyFields(ApplyField(h, resultJson, fields[i]), resultJson, fields, i + 1)

\* [h, v, threw]: the heap after the call, the returned document, and whether the
\* call raised "Failed to rebuild JSON with updated fields".
rebuildJsonWithUpdatedFields(h, originalJson, updatedFields) ==
  LET copy == cloneDeep(h, originalJson)
  IN IF updatedFields.k # "arr"
     THEN [h |-> copy.h, v |-> Undefined, threw |-> TRUE]
     ELSE [h |-> ApplyFields(copy.h, copy.v, updatedFields.elems, 1),
           v |-> copy.v, threw |-> FALSE]

(***************************************************************************)
(* Inputs.  The documents and the field lists the operations are run on.   *)
(***************************************************************************)
\* The longest field list that is supplied by hand.
MaxFields == 2

\* The deepest nesting of section / column containers around a widget.
MaxDepth == 2

\* The most records of an extracted list that are edited.
MaxEdits == 2

RECURSIVE ObjOf(_, _)
\* The object with the given keys and values, without the keys whose value is absent.
ObjOf(ks, vs) ==
  IF ks = <<>> THEN EmptyObj
  ELSE LET rest == ObjOf(Tail(ks), Tail(vs))
       IN IF Head(vs).k = "undef" THEN rest
          ELSE Obj(<<Head(ks)>> \o rest.keys, <<Head(vs)>> \o rest.vals)

Widget(widgetType, settings) ==
  ObjOf(<<W("id"), W("widgetType"), W("settings")>>, <<Str(W("a1")), widgetType, settings>>)

WithKids(node, elements, widgets) ==
  LET kids == ObjOf(<<W("elements"), W("widgets")>>, <<elements, widgets>>)
  IN Obj(node.keys \o kids.keys, node.vals \o kids.vals)

WidgetTypes ==
  {Undefined, Str(<<>>), Num(7), Str(W("heading")), Str(W("text-editor")), Str(W("button")),
   Str(W("divider")), Str(W("spacer")), Str(W("image"))}

SettingKeys == {W("title"), W("editor"), W("text"), W("caption")}

SettingValues ==
  {Null, Str(<<>>), Str(<<" ">>), Str(W("Hello")), Str(<<" ", "Hi", " ">>), Num(5), EmptyObj,
   Arr(<<Str(W("Hello"))>>)}

\* Widgets whose settings hold one key.
OneKeyWidgets ==
  {Widget(t, Obj(<<key>>, <<v>>)) : t \in WidgetTypes, key \in SettingKeys, v \in SettingValues}

\* Widgets whose settings are absent or not an object.
OddSettingsWidgets ==
  {Widget(t, st) : t \in WidgetTypes,
                   st \in {Undefined, Null, Str(W("abc")), Num(3), Arr(<<Str(W("Hello"))>>)}}

\* Widgets whose settings hold several keys, recognized or not.
ManyKeyWidgets ==
  {Widget(t, Obj(<<W("align"), W("title"), W("description"), W("caption"), W("text")>>,
                 <<Str(W("left")), Str(W("Hello")), Str(<<" ">>), Str(W("Cap")), v>>)) :
     t \in WidgetTypes, v \in {Null, Str(W("Go")), Num(5)}}

\* Nodes without settings that carry the text keys themselves.
BareNodes ==
  {ObjOf(<<W("title"), W("caption"), W("widgetType")>>, <<a, b, t>>) :
     a \in {Undefined, Str(W("Hello"))}, b \in {Undefined, Str(W("Cap"))},
     t \in {Undefined, Str(W("image"))}}

Heading(title) == Widget(Str(W("heading")), Obj(<<W("title")>>, <<Str(title)>>))

Button(text) == Widget(Str(W("button")), Obj(<<W("text")>>, <<Str(text)>>))

\* A few widgets, to be combined in pairs.
FewWidgets ==
  {Heading(W("Hello")), Button(W("Go")), Heading(<<" ">>),
   Widget(Str(W("divider")), Obj(<<W("title")>>, <<Str(W("Hello"))>>)),
   Widget(Str(W("image")), Obj(<<W("caption"), W("title")>>, <<Str(W("Cap")), Str(W("Hello"))>>)),
   Widget(Str(W("heading")), Obj(<<W("title")>>, <<Num(5)>>)),
   Null}

\* A node of every type that holds children in `elements` and in `widgets`.
ParentNodes ==
  {WithKids(Widget(t, Obj(<<W("title")>>, <<Str(W("Top"))>>)), e, w) :
     t \in WidgetTypes,
     e \in {Undefined, Arr(<<Heading(W("Hello"))>>), Obj(<<W("0")>>, <<Heading(W("Hello"))>>)},
     w \in {Undefined, Arr(<<Button(W("Go"))>>)}}

RECURSIVE Nested(_, _)
\* widget inside depth levels of section / column containers.
Nested(widget, depth) ==
  IF depth = 0 THEN widget
  ELSE Obj(<<W("elType"), IF depth % 2 = 0 THEN W("widgets") ELSE W("elements")>>,
           <<Str(W("section")), Arr(<<Heading(W("First")), Nested(widget, depth - 1)>>)>>)

TopWidgets(list) == Obj(<<W("version"), W("widgets")>>, <<Num(1), Arr(list)>>)

TopElements(list) == Obj(<<W("version"), W("elements")>>, <<Num(1), Arr(list)>>)

\* A document with a key of its own that spells the dotted path of a field of it.
PathKeyDocument ==
  Obj(<<W("widgets"), <<"widgets", ".", "0", ".", "settings", ".", "title">>>>,
      <<Arr(<<Heading(W("Hello"))>>), Str(W("x"))>>)

\* Documents that are not of the expected shape at the top.
OddDocuments ==
  {Null, EmptyObj, Arr(<<Heading(W("Hello"))>>), Heading(W("Hello")),
   Obj(<<W("widgets")>>, <<Obj(<<W("0")>>, <<Heading(W("Hello"))>>)>>),
   Obj(<<W("widgets")>>, <<Str(W("abc"))>>),
   Obj(<<W("widgets"), W("elements")>>,
       <<Arr(<<Heading(W("Hello"))>>), Arr(<<Button(W("Go"))>>)>>),
   Obj(<<W("widgets"), W("elements")>>, <<Null, Arr(<<Button(W("Go"))>>)>>),
   Obj(<<W("settings"), W("elements")>>,
       <<Obj(<<W("title")>>, <<Str(W("Page"))>>), Arr(<<Heading(W("Hello"))>>)>>),
   TopWidgets(<<Num(5), Str(W("abc")), Arr(<<Heading(W("Hello"))>>), Heading(W("Hello"))>>),
   PathKeyDocument}

\* The documents handed to the field-list cases that are written by hand.
RepairDocuments ==
  {Obj(<<W("widgets"), W("meta")>>,
       <<Arr(<<Heading(W("Hello")), Button(W("Go"))>>), Obj(<<W("a")>>, <<Str(W("x"))>>)>>),
   TopElements(<<>>)}

Documents ==
  {TopWidgets(<<w>>) : w \in OneKeyWidgets \cup OddSettingsWidgets \cup ManyKeyWidgets \cup BareNodes}
  \cup {TopWidgets(<<a, b>>) : a \in FewWidgets, b \in FewWidgets}
  \cup {TopElements(<<p>>) : p \in ParentNodes}
  \cup {TopElements(<<Nested(w, d)>>) : w \in FewWidgets, d \in 1..MaxDepth}
  \cup OddDocuments
  \cup RepairDocuments

\* Path strings, written character by character.
FieldPaths ==
  {<<"widgets", "[", "0", "]", ".", "settings", ".", "title">>,
   <<"widgets", ".", "1", ".", "settings", ".", "text">>,
   <<"widgets", "[", "2", "]", ".", "settings", ".", "title">>,
   <<"meta", "[", "0", "]", ".", "title">>,
   <<"widgets", "[", "2", "]", ".", "settings", ".", "text">>,
   <<"extra", ".", "list", "[", "1", "]", ".", "name">>,
   <<"meta", ".", "b", ".", "3", "d_title">>,
   <<"widgets", "[", "0", "]", ".", "settings", ".", "title", ".", "x">>,
   <<"widgets", ".", "length">>}

\* Well-formed records, and entries that are no records.
SuppliedEntries ==
  {EditableField(W("text"), path, Str(W("New"))) : path \in FieldPaths}
  \cup {EditableField(W("text"), <<"widgets", ".", "length">>, Null)}
  \cup {Null, Obj(<<W("type"), W("value")>>, <<Str(W("text")), Str(W("New"))>>)}

RECURSIVE ListsOf(_, _)
\* The sequences of at most n of the given members.
ListsOf(members, n) ==
  IF n = 0 THEN {<<>>}
  ELSE {<<>>} \cup {<<x>> \o l : x \in members, l \in ListsOf(members, n - 1)}

\* The values an edit gives to a record.
EditValues == {Str(<<"Hi", " ", "(MODIFICADO)">>), Str(<<" ">>), Null}

(***************************************************************************)
(* JSON texts.  A text is the sequence of its tokens: punctuation, the     *)
(* names of properties, and literals (strings, numbers, true, false,       *)
(* null); blanks between tokens are not kept.                              *)
(***************************************************************************)
Punct(c) == [t |-> "punct", v |-> Str(<<c>>)]

Name(key) == [t |-> "name", v |-> Str(key)]

Literal(v) == [t |-> "literal", v |-> v]

RECURSIVE stringify(_)
RECURSIVE Members(_, _, _)
RECURSIVE Items(_, _)
\* JSON.stringify(value, null, 2): a property whose value is undefined is left
\* out, an element that is undefined is written null, and the properties an
\* array has beside its elements are left out.
stringify(value) ==
  CASE value.k = "obj" -> <<Punct("{")>> \o Members(value, 1, TRUE) \o <<Punct("}")>>
    [] value.k = "arr" -> <<Punct("[")>> \o Items(value.elems, 1) \o <<Punct("]")>>
    [] value.k = "undef" -> <<Literal(Null)>>
    [] OTHER -> <<Literal(value)>>

Members(object, i, first) ==
  IF i > Len(object.keys) THEN <<>>
  ELSE IF object.vals[i].k = "undef" THEN Members(object, i + 1, first)
  ELSE (IF first THEN <<>> ELSE <<Punct(",")>>)
       \o <<Name(object.keys[i]), Punct(":")>> \o stringify(object.vals[i])
       \o Members(object, i + 1, FALSE)

Items(elems, i) ==
  IF i > Len(elems) THEN <<>>
  ELSE (IF i > 1 THEN <<Punct(",")>> ELSE <<>>) \o stringify(elems[i]) \o Items(elems, i + 1)

\* The documents typed into the first text area.
AppDocuments ==
  {TopWidgets(<<Heading(W("Hello"))>>), TopWidgets(<<Null>>), EmptyObj, Null}

\* The field lists typed into the second text area, beside the extracted ones.
AppFieldLists ==
  {Arr(<<EditableField(W("heading"), <<"widgets", "[", "0", "]", ".", "settings", ".", "title">>,
                       Str(W("Hi")))>>),
   Arr(<<EditableField(W("text"), <<"extra", ".", "list", "[", "1", "]", ".", "name">>,
                       Str(W("New")))>>),
   EmptyObj}

\* What reading a value from a text gives: whether one was read, the value,
\* and the position after it.
Unread == [ok |-> FALSE, v |-> Undefined, next |-> 0]

Read(v, next) == [ok |-> TRUE, v |-> v, next |-> next]

IsToken(text, i, token) == i <= Len(text) /\ text[i] = token

RECURSIVE ParseValue(_, _)
RECURSIVE ParseMembers(_, _, _), MembersAfter(_, _, _, _)
RECURSIVE ParseItems(_, _, _), ItemsAfter(_, _, _)
\* The value that starts at the i-th token of the text: a literal, an object
\* or an array.
ParseValue(text, i) ==
  IF i > Len(text) THEN Unread
  ELSE IF text[i].t = "literal" THEN Read(text[i].v, i + 1)
  ELSE IF text[i] = Punct("{")
       THEN IF IsToken(text, i + 1, Punct("}")) THEN Read(EmptyObj, i + 2)
            ELSE ParseMembers(text, i + 1, EmptyObj)
  ELSE IF text[i] = Punct("[")
       THEN IF IsToken(text, i + 1, Punct("]")) THEN Read(Arr(<<>>), i + 2)
            ELSE ParseItems(text, i + 1, <<>>)
  ELSE Unread

\* name : value, then a comma and more, or the closing brace.
ParseMembers(text, i, object) ==
  IF i + 1 <= Len(text) /\ text[i].t = "name" /\ text[i + 1] = Punct(":")
  THEN MembersAfter(text, object, text[i].v.s, ParseValue(text, i + 2))
  ELSE Unread

MembersAfter(text, object, key, read) ==
  IF ~read.ok THEN Unread
  ELSE IF IsToken(text, read.next, Punct(","))
       THEN ParseMembers(text, read.next + 1,
                         Obj(Append(object.keys, key), Append(object.vals, read.v)))
  ELSE IF IsToken(text, read.next, Punct("}"))
       THEN Read(Obj(Append(object.keys, key), Append(object.vals, read.v)), read.next + 1)
  ELSE Unread

\* value, then a comma and more, or the closing bracket.
ParseItems(text, i, elems) == ItemsAfter(text, elems, ParseValue(text, i))

ItemsAfter(text, elems, read) ==
  IF ~read.ok THEN Unread
  ELSE IF IsToken(text, read.next, Punct(","))
       THEN ParseItems(text, read.next + 1, Append(elems, read.v))
  ELSE IF IsToken(text, read.next, Punct("]"))
       THEN Read(Arr(Append(elems, read.v)), read.next + 1)
  ELSE Unread

\* JSON.parse(text): [threw, v].  A SyntaxError is raised unless the text is
\* one value from its first token to its last.
JSONparse(text) ==
  IF ParseValue(text, 1).ok /\ ParseValue(text, 1).next = Len(text) + 1
  THEN [threw |-> FALSE, v |-> ParseValue(text, 1).v]
  ELSE [threw |-> TRUE, v |-> Undefined]

isValidJson(str) == ~JSONparse(str).threw

\* A text cut off before its last token.
Malformed(text) == SubSeq(text, 1, Len(text) - 1)

\* What is typed into the first text area, and into the second.
OriginalTexts ==
  {<<>>, Malformed(stringify(TopWidgets(<<Heading(W("Hello"))>>)))}
  \cup {stringify(d) : d \in AppDocuments}

FieldTexts ==
  {<<>>, Malformed(stringify(Arr(<<>>)))} \cup {stringify(l) : l \in AppFieldLists}

(***************************************************************************)
(* JsonRebuildApp (components/JsonTextArea.tsx): the state of the          *)
(* component is the record `app`, with a field for every useState; `ran`   *)
(* is the handler or setter that ran last and `called` the functions of    *)
(* the processor it called.  A text area and its button are on the page    *)
(* while their tab is the active one.                                      *)
(***************************************************************************)
useState ==
  [originalJson |-> <<>>,
   parsedOriginalJson |-> Null,
   extractedFields |-> Arr(<<>>),
   cleanJsonString |-> <<>>,
   updatedFieldsInput |-> <<>>,
   rebuiltJson |-> <<>>,
   activeTab |-> "extract",
   errors |-> "",
   ran |-> "",
   called |-> {}]

(***************************************************************************)
(* The state: the heap, the parsed document `json`, the records extracted  *)
(* from it, the field list handed to the rebuilder, the rebuilt document   *)
(* and the records extracted from the rebuilt document.  `input` is the    *)
(* document as it was parsed, by value; it never changes.                  *)
(***************************************************************************)
VARIABLES heap, json, input, fields, modifiedFields, rebuiltJson, newFields, pc, app

vars == <<heap, json, input, fields, modifiedFields, rebuiltJson, newFields, pc, app>>

Init ==
  \E d \in Documents :
     /\ heap = Alloc(<<>>, d).h
     /\ json = Alloc(<<>>, d).v
     /\ input = d
     /\ fields = Done(<<>>)
     /\ modifiedFields = Arr(<<>>)
     /\ rebuiltJson = Undefined
     /\ newFields = Done(<<>>)
     /\ pc = "start"
     /\ app = useState

\* const fields = extractEditableFields(json)
Extract ==
  /\ pc = "start"
  /\ fields' = extractEditableFields(Deref(heap, json))
  /\ modifiedFields' = Arr(fields'.out)
  /\ pc' = IF fields'.threw THEN "extractFailed" ELSE "extracted"
  /\ UNCHANGED <<heap, json, input, rebuiltJson, newFields, app>>

\* The records of modifiedFields whose value is not the extracted one any more.
Edited ==
  {i \in 1..Len(modifiedFields.elems) : modifiedFields.elems[i].vals[3] # fields.out[i].vals[3]}

\* The value of one record is edited; its type and its path are kept.
Edit ==
  /\ pc \in {"extracted", "edited"}
  /\ Cardinality(Edited) < MaxEdits
  /\ \E i \in (1..Len(modifiedFields.elems)) \ Edited, v \in EditValues :
        /\ modifiedFields' = [modifiedFields EXCEPT !.elems[i].vals[3] = v]
  /\ pc' = "edited"
  /\ UNCHANGED <<heap, json, input, fields, rebuiltJson, newFields, app>>

\* A field list that was not extracted from the document is handed over.
Supply ==
  /\ pc = "start"
  /\ input \in RepairDocuments
  /\ \/ \E l \in ListsOf(SuppliedEntries, MaxFields) : modifiedFields' = Arr(l)
     \/ modifiedFields' = EmptyObj
  /\ pc' = "supplied"
  /\ UNCHANGED <<heap, json, input, fields, rebuiltJson, newFields, app>>

\* const rebuiltJson = rebuildJsonWithUpdatedFields(json, modifiedFields)
Rebuild ==
  /\ pc \in {"extracted", "edited", "supplied"}
  /\ LET r == rebuildJsonWithUpdatedFields(heap, json, modifiedFields)
     IN /\ heap' = r.h
        /\ rebuiltJson' = r.v
        /\ pc' = IF r.threw THEN "rebuildFailed"
                 ELSE IF pc = "supplied" THEN "applied" ELSE "rebuilt"
  /\ UNCHANGED <<json, input, fields, modifiedFields, newFields, app>>

\* const newFields = extractEditableFields(rebuiltJson)
ReExtract ==
  /\ pc = "rebuilt"
  /\ newFields' = extractEditableFields(Deref(heap, rebuiltJson))
  /\ pc' = "verified"
  /\ UNCHANGED <<heap, json, input, fields, modifiedFields, rebuiltJson, app>>

Next == Extract \/ Edit \/ Supply \/ Rebuild \/ ReExtract

Spec == Init /\ [][Next]_vars

\* fieldPath.startsWith('settings.')
StartsWithSettings(path) == Len(path) >= 2 /\ SubSeq(path, 1, 2) = W("settings") \o <<".">>

\* The path the second variant of the rebuilder resolves for a record path
\* (part_000, lines 312-321): left as it is for a single widget and a path
\* under its settings, and when it holds no bracket.
fieldPath2(originalJson, path) ==
  IF isElementorWidget(originalJson) /\ StartsWithSettings(path) THEN path
  ELSE IF \E i \in 1..Len(path) : path[i] = "[" THEN ReplaceBrackets(path, 1)
  ELSE path

RECURSIVE BracketInfixes(_, _)
\* path.replace(/\.\d+\./g, ...) from s[i] on: every .N. becomes [N]. , and the
\* search goes on after the dot that closed the match.
BracketInfixes(s, i) ==
  IF i > Len(s) THEN <<>>
  ELSE IF /\ s[i] = "."
          /\ DigitsEnd(s, i + 1) >= i + 1
          /\ DigitsEnd(s, i + 1) + 1 <= Len(s)
          /\ s[DigitsEnd(s, i + 1) + 1] = "."
       THEN <<"[">> \o SubSeq(s, i + 1, DigitsEnd(s, i + 1)) \o <<"]", ".">>
                   \o BracketInfixes(s, DigitsEnd(s, i + 1) + 2)
  ELSE <<s[i]>> \o BracketInfixes(s, i + 1)

\* path.substring(9) for a path that starts with 'settings.', `settings.${path}`
\* for one that does not.
SettingsToggled(path) ==
  IF StartsWithSettings(path) THEN SubSeq(path, 3, Len(path))
  ELSE W("settings") \o <<".">> \o path

\* The two candidates the other way round.
AlternatesReversed(path) == <<BracketInfixes(path, 1), SettingsToggled(path)>>

\* getAlternatePaths(path): the candidates in the order they are pushed.
getAlternatePaths(path) == <<SettingsToggled(path), BracketInfixes(path, 1)>>

RECURSIVE TryAlternates(_, _, _, _, _)
\* for (const altPath of alternatePaths) from the i-th on: [h, raised].
TryAlternates(h, resultJson, alternatePaths, i, value) ==
  IF i > Len(alternatePaths) THEN [h |-> h, raised |-> FALSE]
  ELSE IF get(h, resultJson, alternatePaths[i]) # Undefined
       THEN [h |-> set(h, resultJson, alternatePaths[i], value).h,
             raised |-> set(h, resultJson, alternatePaths[i], value).threw]
  ELSE TryAlternates(h, resultJson, alternatePaths, i + 1, value)

\* The update at a path (part_000, lines 326-348): at the path where it
\* resolves, at the first alternate that resolves where it does not.
UpdateAt(h, resultJson, fieldPath, value) ==
  IF get(h, resultJson, fieldPath) # Undefined
  THEN [h |-> set(h, resultJson, fieldPath, value).h,
        raised |-> set(h, resultJson, fieldPath, value).threw]
  ELSE TryAlternates(h, resultJson, getAlternatePaths(fieldPath), 1, value)

\* The try block of the loop body for one field (part_000, lines 310-348):
\* [h, raised].  field.path of null or undefined raises, and so does includes
\* of a path that is no string.
TryField2(h, resultJson, original, field) ==
  IF IsNullish(field) THEN [h |-> h, raised |-> TRUE]
  ELSE IF PropOfNode(field, W("path")).k # "str" THEN [h |-> h, raised |-> TRUE]
  ELSE UpdateAt(h, resultJson, fieldPath2(original, PropOfNode(field, W("path")).s),
                PropOfNode(field, W("value")))

RECURSIVE ApplyFields2(_, _, _, _, _)
\* for (const field of updatedFields) from element i (1-based) on; what a turn
\* raises is caught and logged.
ApplyFields2(h, resultJson, original, list, i) ==
  IF i > Len(list) THEN h
  ELSE ApplyFields2(TryField2(h, resultJson, original, list[i]).h, resultJson, original,
                    list, i + 1)

\* The second variant of rebuildJsonWithUpdatedFields: [h, v, threw].  A list
\* that cannot be iterated raises out of the loop.
rebuildJsonWithUpdatedFields2(h, originalJson, updatedFields) ==
  LET copy == cloneDeep(h, originalJson)
  IN IF updatedFields.k # "arr"
     THEN [h |-> copy.h, v |-> Undefined, threw |-> TRUE]
     ELSE [h |-> ApplyFields2(copy.h, copy.v, Deref(h, originalJson), updatedFields.elems, 1),
           v |-> copy.v, threw |-> FALSE]

(***************************************************************************)
(* The extractors of the two earlier variants, each run on the same        *)
(* documents as the one above.                                             *)
(***************************************************************************)
\* const fields = extractEditableFields(json), first variant
Extract1 ==
  /\ pc = "start"
  /\ fields' = extractEditableFields1(Deref(heap, json))
  /\ modifiedFields' = Arr(fields'.out)
  /\ pc' = IF fields'.threw THEN "extractFailed" ELSE "extracted"
  /\ UNCHANGED <<heap, json, input, rebuiltJson, newFields, app>>

Next1 == Extract1

Spec1 == Init /\ [][Next1]_vars

\* const fields = extractEditableFields(json), second variant
Extract2 ==
  /\ pc = "start"
  /\ fields' = extractEditableFields2(Deref(heap, json))
  /\ modifiedFields' = Arr(fields'.out)
  /\ pc' = IF fields'.threw THEN "extractFailed" ELSE "extracted"
  /\ UNCHANGED <<heap, json, input, rebuiltJson, newFields, app>>

\* A widget with a title of its own and none in settings, a document with a
\* key of its own that spells `a[0].b` beside the same field under settings,
\* and that document without its settings.
AlternateDocuments ==
  {Heading(W("Hello")),
   Obj(<<W("widgetType"), W("title")>>, <<Str(W("image")), Str(W("Hello"))>>),
   Obj(<<<<"a", "[", "0", "]", ".", "b">>, W("settings")>>,
       <<Str(W("k")), Obj(<<W("a")>>, <<Arr(<<Obj(<<W("b")>>, <<Str(W("s"))>>)>>)>>)>>),
   Obj(<<<<"a", "[", "0", "]", ".", "b">>, W("version")>>, <<Str(W("k")), Num(1)>>),
   TopWidgets(<<Heading(W("Hello")), Button(W("Go"))>>)}

\* The paths of the records handed to the second variant of the rebuilder.
AlternatePaths ==
  {<<"title">>,
   <<"settings", ".", "title">>,
   <<"a", ".", "0", ".", "b">>,
   <<"widgets", "[", "0", "]", ".", "settings", ".", "title">>,
   <<"widgets", "[", "2", "]", ".", "settings", ".", "title">>}

AlternateEntries ==
  {EditableField(W("text"), path, Str(W("New"))) : path \in AlternatePaths}
  \cup {Null, Obj(<<W("type"), W("value")>>, <<Str(W("text")), Str(W("New"))>>)}

\* The documents of the extractor and the ones of the alternate paths.
Init2 ==
  \E d \in Documents \cup AlternateDocuments :
     /\ heap = Alloc(<<>>, d).h
     /\ json = Alloc(<<>>, d).v
     /\ input = d
     /\ fields = Done(<<>>)
     /\ modifiedFields = Arr(<<>>)
     /\ rebuiltJson = Undefined
     /\ newFields = Done(<<>>)
     /\ pc = "start"
     /\ app = useState

\* A field list that was not extracted from the document is handed over.
Supply2 ==
  /\ pc = "start"
  /\ input \in AlternateDocuments
  /\ \/ \E l \in ListsOf(AlternateEntries, MaxFields) : modifiedFields' = Arr(l)
     \/ modifiedFields' = EmptyObj
  /\ pc' = "supplied"
  /\ UNCHANGED <<heap, json, input, fields, rebuiltJson, newFields, app>>

\* const updatedJson = rebuildJsonWithUpdatedFields(json, modifiedFields), second variant
Rebuild2 ==
  /\ pc \in {"extracted", "edited", "supplied"}
  /\ \E r \in {rebuildJsonWithUpdatedFields2(heap, json, modifiedFields)} :
        /\ heap' = r.h
        /\ rebuiltJson' = r.v
        /\ pc' = IF r.threw THEN "rebuildFailed"
                 ELSE IF pc = "supplied" THEN "applied" ELSE "rebuilt"
  /\ UNCHANGED <<json, input, fields, modifiedFields, newFields, app>>

Next2 == Extract2 \/ Edit \/ Supply2 \/ Rebuild2

Spec2 == Init2 /\ [][Next2]_vars

(***************************************************************************)
(* JsonRebuildApp: the text areas, the tabs and the two buttons.           *)
(***************************************************************************)
AppInit ==
  /\ heap = <<>>
  /\ json = Undefined
  /\ input = Undefined
  /\ fields = Done(<<>>)
  /\ modifiedFields = Arr(<<>>)
  /\ rebuiltJson = Undefined
  /\ newFields = Done(<<>>)
  /\ pc = "app"
  /\ app = useState

\* onChange={setOriginalJson}
setOriginalJson ==
  /\ app.activeTab = "extract"
  /\ \E text \in OriginalTexts :
        app' = [app EXCEPT !.originalJson = text, !.ran = "setOriginalJson", !.called = {}]
  /\ UNCHANGED <<heap, json, input, fields, modifiedFields, rebuiltJson, newFields, pc>>

\* onChange={setUpdatedFieldsInput}
setUpdatedFieldsInput ==
  /\ app.activeTab = "rebuild"
  /\ \E text \in FieldTexts :
        app' = [app EXCEPT !.updatedFieldsInput = text, !.ran = "setUpdatedFieldsInput",
                           !.called = {}]
  /\ UNCHANGED <<heap, json, input, fields, modifiedFields, rebuiltJson, newFields, pc>>

\* onValueChange={setActiveTab}
setActiveTab ==
  /\ \E tab \in {"extract", "rebuild", "result"} :
        app' = [app EXCEPT !.activeTab = tab, !.ran = "setActiveTab", !.called = {}]
  /\ UNCHANGED <<heap, json, input, fields, modifiedFields, rebuiltJson, newFields, pc>>

\* A handler that empties the extracted list and its texts before it looks at
\* the text it was given.
ExtractResetting ==
  /\ app.activeTab = "extract"
  /\ app' = [app EXCEPT !.extractedFields = Arr(<<>>), !.cleanJsonString = <<>>,
                        !.updatedFieldsInput = <<>>,
                        !.errors = "O JSON inserido nao e valido. Verifique a formatacao.",
                        !.ran = "handleExtractFields", !.called = {}]
  /\ UNCHANGED <<heap, json, input, fields, modifiedFields, rebuiltJson, newFields, pc>>

\* The state after the fields were extracted and written out (lines 179-198).
ShowFields(state, found, cleanJson) ==
  [state EXCEPT !.extractedFields = Arr(found.out),
                !.cleanJsonString = cleanJson,
                !.updatedFieldsInput = cleanJson,
                !.errors = "",
                !.activeTab = IF Len(found.out) > 0 THEN "rebuild" ELSE @]

\* The state after the extractor returned or raised (lines 178-207).
AfterExtract(state, found) ==
  IF found.threw
  THEN [state EXCEPT !.errors = "Erro ao processar o JSON: Failed to extract editable fields from JSON"]
  ELSE ShowFields(state, found, stringify(Arr(found.out)))

\* The state after the text was parsed (lines 174-207).
AfterParse(state, parsed) ==
  AfterExtract([state EXCEPT !.parsedOriginalJson = parsed,
                             !.called = {"extractEditableFields"}],
               extractEditableFields(parsed))

\* onClick={handleExtractFields}
handleExtractFields ==
  /\ app.activeTab = "extract"
  /\ LET ran == [app EXCEPT !.ran = "handleExtractFields", !.called = {}]
     IN app' =
          IF app.originalJson = <<>>
          THEN [ran EXCEPT !.errors = "Por favor, insira o JSON original do Elementor."]
          ELSE IF ~isValidJson(app.originalJson)
          THEN [ran EXCEPT !.errors = "O JSON inserido nao e valido. Verifique a formatacao."]
          ELSE AfterParse(ran, JSONparse(app.originalJson).v)
  /\ UNCHANGED <<heap, json, input, fields, modifiedFields, rebuiltJson, newFields, pc>>

\* The state after the rebuilder returned or raised (lines 247-272).
AfterRebuild(state, rebuilt) ==
  IF rebuilt.threw
  THEN [state EXCEPT !.errors = "Erro ao reconstruir o JSON: Failed to rebuild JSON with updated fields"]
  ELSE [state EXCEPT !.rebuiltJson = stringify(Deref(rebuilt.h, rebuilt.v)),
                     !.errors = "",
                     !.activeTab = "result"]

\* The call of the rebuilder on the parsed document and the parsed list.
RebuildWith(original, updatedFields) ==
  rebuildJsonWithUpdatedFields(original.h, original.v, updatedFields)

\* onClick={handleRebuildJson}
handleRebuildJson ==
  /\ app.activeTab = "rebuild"
  /\ LET ran == [app EXCEPT !.ran = "handleRebuildJson", !.called = {}]
     IN app' =
          IF ~Truthy(app.parsedOriginalJson)
          THEN [ran EXCEPT !.errors = "JSON original nao disponivel. Por favor, execute o passo 1 primeiro."]
          ELSE IF app.updatedFieldsInput = <<>>
          THEN [ran EXCEPT !.errors = "Por favor, insira o JSON limpo preenchido."]
          ELSE IF ~isValidJson(app.updatedFieldsInput)
          THEN [ran EXCEPT !.errors = "O JSON preenchido nao e valido. Verifique a formatacao."]
          ELSE AfterRebuild([ran EXCEPT !.called = {"rebuildJsonWithUpdatedFields"}],
                            RebuildWith(Alloc(<<>>, app.parsedOriginalJson),
                                        JSONparse(app.updatedFieldsInput).v))
  /\ UNCHANGED <<heap, json, input, fields, modifiedFields, rebuiltJson, newFields, pc>>

AppNext ==
  \/ setOriginalJson
  \/ setUpdatedFieldsInput
  \/ setActiveTab
  \/ handleExtractFields
  \/ handleRebuildJson

AppSpec == AppInit /\ [][AppNext]_vars

(***************************************************************************)
(* Properties.                                                             *)
(***************************************************************************)
\* The rebuilder has returned a document.
Rebuilt == pc \in {"rebuilt", "applied", "verified"}

\* The extractor has returned the records of the document.
Extracted == pc \in {"extracted", "edited", "rebuilt", "verified"}

PathOf(record) == PropOfNode(record, W("path"))

ValueOf(record) == PropOfNode(record, W("value"))

\* A string that is not empty once its blanks are taken away.
IsText(v) == v.k = "str" /\ \E i \in 1..Len(v.s) : v.s[i] # " "

\* The steps a record path spells, brackets and dots alike.
StepsOf(record) == stringToPath(resolvePath(PathOf(record).s))

\* What the document holds where the steps lead, one property at a time.
FieldAt(steps) == baseGet(heap, json, steps, 1)

\* The field list is the extracted one, no value edited.
Unedited == modifiedFields = Arr(fields.out)

\* The list without its k-th entry.
Without(list, k) == SubSeq(list, 1, k - 1) \o SubSeq(list, k + 1, Len(list))

\* The heap a call of the rebuilder is entered with: the containers of the
\* parsed document, which are the first of the heap and which no call changes.
EntryHeap == SubSeq(heap, 1, json.n)

\* The document a call of the rebuilder returns for the parsed document and a list.
RebuildOf(list) ==
  LET r == rebuildJsonWithUpdatedFields(EntryHeap, json, Arr(list))
  IN Deref(r.h, r.v)

\* The heap of a call that has copied the document, after the first n entries
\* of the field list.
AfterEntries(copy, n) == ApplyFields(copy.h, copy.v, SubSeq(modifiedFields.elems, 1, n), 1)

\* The heap of the call at the turn of the k-th entry of the field list.
HeapBefore(k) == AfterEntries(cloneDeep(EntryHeap, json), k - 1)

\* The rebuilder has just returned a document.
Returned == pc \in {"rebuilt", "applied"}

\* C1: rebuildJsonWithUpdatedFields never mutates the original document: the
\* document is, by value, what it was when it was parsed, whatever the field list
\* (records that resolve, that make containers, that fail), and no object or
\* array of the returned document is an object or array of the original.
C1_NonAliasing ==
  /\ Deref(heap, json) = input
  /\ Rebuilt => Reach(heap, rebuiltJson) \cap Reach(heap, json) = {}

\* C1 witness: a supplied list with an entry that fails and records that changed
\* the copy and created containers in it.
C1_Witness ==
  /\ pc = "applied"
  /\ \E i \in 1..Len(modifiedFields.elems) : modifiedFields.elems[i] = Null
  /\ Deref(heap, rebuiltJson) # input
  /\ Cardinality(Reach(heap, rebuiltJson)) > Cardinality(Reach(heap, json))

\* C2: round trip: rebuilding a document with the records extracted from it,
\* unedited, returns a document equal to it.
C2_RoundTrip == (pc = "rebuilt" /\ Unedited) => Deref(heap, rebuiltJson) = input

\* Every record of the field list holds a string that is not blank.
AllText == \A i \in 1..Len(modifiedFields.elems) : IsText(ValueOf(modifiedFields.elems[i]))

\* C3, for the edits that leave text in every record: the records extracted from
\* the rebuilt document are as many as the edited records, in the same order,
\* with the edited values.
C3_Reextraction ==
  (pc = "verified" /\ AllText) =>
     /\ ~newFields.threw
     /\ Len(newFields.out) = Len(modifiedFields.elems)
     /\ \A i \in 1..Len(newFields.out) :
           ValueOf(newFields.out[i]) = ValueOf(modifiedFields.elems[i])

\* C4: the path of every extracted record, normalized by resolvePath, resolves
\* in the document to the value of the record.
C4_PathInvariant ==
  Extracted =>
     \A i \in 1..Len(fields.out) :
        get(heap, json, resolvePath(PathOf(fields.out[i]).s)) = ValueOf(fields.out[i])

\* C5: every extracted record holds a string that is not empty after trimming,
\* the string the document holds at the steps of its path: a field that is
\* empty, blank, null or missing has no record.
C5_BlankSuppression ==
  /\ pc = "extracted" =>
        \A i \in 1..Len(fields.out) :
           /\ IsText(ValueOf(fields.out[i]))
           /\ FieldAt(StepsOf(fields.out[i])) = ValueOf(fields.out[i])
  /\ \A i \in 1..Len(newFields.out) : IsText(ValueOf(newFields.out[i]))

\* C5 witness: a heading with a blank title next to a heading with a title, and
\* one record.
C5_Witness ==
  /\ pc = "extracted"
  /\ input = TopWidgets(<<Heading(<<" ">>), Heading(W("Hello"))>>)
  /\ Len(fields.out) = 1

\* The widget a record was read from: its path without `.settings.<key>`.
OwnerOf(record) == FieldAt(SubSeq(StepsOf(record), 1, Len(StepsOf(record)) - 2))

\* C6: no record is read from a widget whose widgetType is "divider" or
\* "spacer", whatever its settings hold.
C6_SkipTypes ==
  pc = "extracted" =>
     \A i \in 1..Len(fields.out) :
        PropOf(heap, OwnerOf(fields.out[i]), W("widgetType"))
           \notin {Str(W("divider")), Str(W("spacer"))}

\* C6 witness: a divider with a title next to a heading, and the record of the
\* heading alone.
C6_Witness ==
  /\ pc = "extracted"
  /\ input = TopWidgets(<<Widget(Str(W("divider")), Obj(<<W("title")>>, <<Str(W("Hello"))>>)),
                          Heading(W("Hello"))>>)
  /\ Len(fields.out) = 1
  /\ PathOf(fields.out[1]).s = <<"widgets", "[", "1", "]", ".", "settings", ".", "title">>

\* The array the extraction starts from, and its name.
TopName ==
  IF isArray(PropOfNode(input, W("widgets"))) THEN W("widgets") ELSE W("elements")

TopList == PropOfNode(input, TopName)

\* The records the children of a node give, in `elements` or in `widgets`, each
\* child taken on its own.
ChildRecords(node, nodePath, kind) ==
  LET kids == PropOfNode(node, kind)
  IN IF ~isArray(kids) THEN {}
     ELSE UNION {LET own == WidgetRecords(kids.elems[j],
                                          CurrentPath(nodePath \o <<".">> \o kind, j - 1))
                 IN {own.out[n] : n \in 1..Len(own.out)} :
                   j \in {x \in 1..Len(kids.elems) : ~IsNullish(kids.elems[x])}}

\* C7: the children of a divider or spacer are still traversed: the records of
\* the widgets in its `elements` and `widgets` arrays are in the output.
C7_SkipStillRecurses ==
  (Extracted /\ ~IsNullish(input) /\ isArray(TopList)) =>
     \A i \in 1..Len(TopList.elems) :
        LET node == TopList.elems[i]
        IN (~IsNullish(node)
            /\ PropOfNode(node, W("widgetType")) \in {Str(W("divider")), Str(W("spacer"))}) =>
              \A kind \in {W("elements"), W("widgets")} :
                 ChildRecords(node, CurrentPath(TopName, i - 1), kind)
                    \subseteq {fields.out[n] : n \in 1..Len(fields.out)}

\* C8: the extraction never raises, whatever the fields of the parsed value
\* lack and whatever kind they are of.
C8_NeverRaises == pc # "extractFailed" /\ ~newFields.threw

\* The normalized path of a record resolves in the document of heap h.
Resolves(h, record) == get(h, rebuiltJson, resolvePath(PathOf(record).s)) # Undefined

\* The turn of the k-th entry, from the heap before it to the heap after it.
IsolatedTurn(k, record, before, after, raised, normalizedPath) ==
  /\ raised => Deref(heap, rebuiltJson) = RebuildOf(Without(modifiedFields.elems, k))
  /\ (~raised /\ get(before, rebuiltJson, normalizedPath) # Undefined) =>
        /\ ValueOf(record).k = "str" => get(after, rebuiltJson, normalizedPath) = ValueOf(record)
        /\ ValueOf(record) = Null => get(after, rebuiltJson, normalizedPath) \in {Null, Num(0)}

RECURSIVE TurnsFrom(_, _)
RECURSIVE TurnAndRest(_, _, _)
\* The entries from the k-th on, each taken in its turn from heap h: every turn
\* is isolated, and the last leaves the document the call returned.
TurnsFrom(h, k) ==
  IF k > Len(modifiedFields.elems) THEN Deref(h, rebuiltJson) = Deref(heap, rebuiltJson)
  ELSE \A try \in {TryField(h, rebuiltJson, modifiedFields.elems[k])} : TurnAndRest(k, h, try)

TurnAndRest(k, before, try) ==
  /\ IsolatedTurn(k, modifiedFields.elems[k], before, try.h, try.raised,
                  resolvePath(PathOf(modifiedFields.elems[k]).s))
  /\ TurnsFrom(try.h, k + 1)

AbortsRepair(h, record) ==
  /\ ~IsNullish(record)
  /\ PathOf(record).k = "str"
  /\ LET pathParts == split(resolvePath(PathOf(record).s))
     IN \E i \in 1..Len(pathParts) :
           /\ \A j \in 1..(i - 1) :
                 get(h, rebuiltJson, join(SubSeq(pathParts, 1, j))) # Undefined
           /\ get(h, rebuiltJson, join(SubSeq(pathParts, 1, i))) = Undefined
           /\ ParsesAsInt(pathParts[i])
           /\ LET parent == get(h, rebuiltJson, join(SubSeq(pathParts, 1, i - 1)))
              IN parent.k = "ref" /\ h[parent.n].k = "obj"

\* C10: a record whose repair is aborted is left unapplied: the document is the
\* one the list without that record gives.
C10_AbortLeavesUnapplied ==
  Returned =>
     \A k \in 1..Len(modifiedFields.elems) :
        AbortsRepair(HeapBefore(k), modifiedFields.elems[k]) =>
           Deref(heap, rebuiltJson) = RebuildOf(Without(modifiedFields.elems, k))

\* A record with a string path and a string value.
IsRecord(entry) ==
  /\ ~IsNullish(entry)
  /\ PathOf(entry).k = "str"
  /\ ValueOf(entry).k = "str"

\* Some step of the path, short of the last, leads to nothing in the document of
\* heap h: a top-level key, an array element or an object on the way is missing.
LacksContainer(h, steps) ==
  \E i \in 1..(Len(steps) - 1) : baseGet(h, rebuiltJson, SubSeq(steps, 1, i), 1) = Undefined

\* The turn of the k-th entry is one of synthesis: a record whose path leads
\* through a container the document lacks before the turn.
SynthesisTurn(k, before) ==
  /\ IsRecord(modifiedFields.elems[k])
  /\ LacksContainer(before, StepsOf(modifiedFields.elems[k]))

\* The value of the k-th entry is found at its normalized path in heap h.
HoldsValue(h, k) ==
  get(h, rebuiltJson, resolvePath(PathOf(modifiedFields.elems[k]).s))
     = ValueOf(modifiedFields.elems[k])

RECURSIVE SynthesisFrom(_, _), SynthesisThenRest(_, _, _)
\* From the k-th turn on, with heap h before it: after every turn of synthesis
\* the value is at the path.
SynthesisFrom(h, k) ==
  IF k > Len(modifiedFields.elems) THEN TRUE
  ELSE \A after \in {ApplyField(h, rebuiltJson, modifiedFields.elems[k])} :
          SynthesisThenRest(k, h, after)

SynthesisThenRest(k, before, after) ==
  /\ SynthesisTurn(k, before) => HoldsValue(after, k)
  /\ SynthesisFrom(after, k + 1)

\* C11: a record whose path leads through a container the document lacks (a
\* top-level key, an array element, an object on the way) has its value at its
\* normalized path once its turn is over, and a list of one such record has it
\* in the returned document.
C11_SynthesisApplies ==
  Returned =>
     \A copied \in {cloneDeep(EntryHeap, json).h} :
        /\ SynthesisFrom(copied, 1)
        /\ (Len(modifiedFields.elems) = 1 /\ SynthesisTurn(1, copied)) => HoldsValue(heap, 1)

\* C11 witness: the document without `extra` and with two widgets, a record
\* under `extra.list[1]` and a record under `widgets[2]`, and both values in the
\* returned document.
C11_Witness ==
  /\ pc = "applied"
  /\ Len(modifiedFields.elems) = 2
  /\ IsRecord(modifiedFields.elems[1])
  /\ PathOf(modifiedFields.elems[1]).s = <<"extra", ".", "list", "[", "1", "]", ".", "name">>
  /\ IsRecord(modifiedFields.elems[2])
  /\ PathOf(modifiedFields.elems[2]).s = <<"widgets", "[", "2", "]", ".", "settings", ".", "title">>
  /\ Len(PropOfNode(input, W("widgets")).elems) = 2
  /\ SynthesisTurn(1, cloneDeep(EntryHeap, json).h)
  /\ HoldsValue(heap, 1)
  /\ HoldsValue(heap, 2)

\* The names of the properties a container holds: its keys, and the indices of
\* its elements.
OwnKeys(node) ==
  {node.keys[i] : i \in 1..Len(node.keys)} \cup {NumStr(i - 1) : i \in 1..Len(node.elems)}

\* What the steps lead to in heap h; no step leads to the document itself.
Along(h, steps) == IF steps = <<>> THEN rebuiltJson ELSE baseGet(h, rebuiltJson, steps, 1)

\* Around the path, nothing has changed from heap `before` to heap `after`:
\* every container the steps lead through holds, under every name but the one
\* the path takes, what it held.
KeptAround(before, after, steps) ==
  \A i \in 0..(Len(steps) - 1) :
     LET c == Along(before, SubSeq(steps, 1, i))
     IN c.k = "ref" =>
           \A key \in OwnKeys(before[c.n]) \ {steps[i + 1]} :
              Deref(after, PropOf(after, c, key)) = Deref(before, PropOf(before, c, key))

\* Two paths part ways at some step: neither leads through the other.
Diverge(a, b) ==
  \E i \in 1..Len(a) : i <= Len(b) /\ a[i] # b[i] /\ SubSeq(a, 1, i - 1) = SubSeq(b, 1, i - 1)

RECURSIVE SiblingsFrom(_, _), SiblingsThenRest(_, _, _)
\* From the k-th turn on, with heap h before it: a turn of synthesis keeps what
\* is around its path and what the earlier records wrote elsewhere; the heap
\* after the last turn is the one of the returned document.
SiblingsFrom(h, k) ==
  IF k > Len(modifiedFields.elems) THEN Deref(h, rebuiltJson) = Deref(heap, rebuiltJson)
  ELSE \A after \in {ApplyField(h, rebuiltJson, modifiedFields.elems[k])} :
          SiblingsThenRest(k, h, after)

SiblingsThenRest(k, before, after) ==
  /\ SynthesisTurn(k, before) =>
        /\ KeptAround(before, after, StepsOf(modifiedFields.elems[k]))
        /\ \A j \in 1..(k - 1) :
              (/\ IsRecord(modifiedFields.elems[j])
               /\ Diverge(StepsOf(modifiedFields.elems[j]), StepsOf(modifiedFields.elems[k]))
               /\ HoldsValue(before, j)) => HoldsValue(after, j)
  /\ SiblingsFrom(after, k + 1)

\* C12: a record that makes containers clobbers nothing beside its path: what
\* the earlier records of the call wrote at other indices or keys is still at
\* their paths after its turn, and every element or key that was there beside
\* the path, at any depth, is what it was.
C12_SiblingsKept ==
  Returned => \A copied \in {cloneDeep(EntryHeap, json).h} : SiblingsFrom(copied, 1)

\* C12 witness: two widgets in the document, a record for `widgets[2].settings.title`
\* then one for `widgets[2].settings.text`: both values are in the returned
\* document and the two widgets are what they were.
C12_Witness ==
  /\ pc = "applied"
  /\ Len(modifiedFields.elems) = 2
  /\ IsRecord(modifiedFields.elems[1])
  /\ PathOf(modifiedFields.elems[1]).s = <<"widgets", "[", "2", "]", ".", "settings", ".", "title">>
  /\ IsRecord(modifiedFields.elems[2])
  /\ PathOf(modifiedFields.elems[2]).s = <<"widgets", "[", "2", "]", ".", "settings", ".", "text">>
  /\ Len(PropOfNode(input, W("widgets")).elems) = 2
  /\ HoldsValue(heap, 1)
  /\ HoldsValue(heap, 2)
  /\ \A i \in 1..2 :
        Deref(heap, get(heap, rebuiltJson, <<"widgets", ".", NumStr(i - 1)[1]>>))
           = PropOfNode(input, W("widgets")).elems[i]

\* The record of a heading: its type, the path of its title, its title.
HeadingRecord(node, nodePath) ==
  EditableField(W("heading"), SettingsPath(nodePath, W("title")),
                PropOfNode(PropOfNode(node, W("settings")), W("title")))

\* A heading whose title is a string that is not blank.
IsHeading(node) ==
  /\ node.k = "obj"
  /\ PropOfNode(node, W("widgetType")) = Str(W("heading"))
  /\ PropOfNode(node, W("settings")).k = "obj"
  /\ IsText(PropOfNode(PropOfNode(node, W("settings")), W("title")))

\* C13: the extraction starts from the top-level `widgets` array if there is
\* one, else from the top-level `elements` array if there is one, whatever else
\* the root carries (a `settings` object, a `widgetType`): every heading of
\* that array has its record in the output, and every record of the output has
\* a path that starts with the name of that array.
C13_TopLevelStart ==
  (pc = "extracted" /\ ~IsNullish(input) /\ isArray(TopList)) =>
     /\ \A i \in 1..Len(TopList.elems) :
           IsHeading(TopList.elems[i]) =>
              \E n \in 1..Len(fields.out) :
                 fields.out[n] = HeadingRecord(TopList.elems[i], CurrentPath(TopName, i - 1))
     /\ \A n \in 1..Len(fields.out) :
           SubSeq(PathOf(fields.out[n]).s, 1, 2) = TopName \o <<"[">>

\* The keys under which a node without widgetType carries its texts itself.
BareTextKeys ==
  {W("title"), W("editor"), W("text"), W("content"), W("description"), W("caption")}

\* C14: a node of the walked array that has no widgetType gives one record for
\* every key of title, editor, text, content, description, caption under which
\* it carries a string that is not blank: the type is the key, the path is the
\* path of the node and the key, the value is the string.
C14_BareNodes ==
  (pc = "extracted" /\ ~IsNullish(input) /\ isArray(TopList)) =>
     \A i \in 1..Len(TopList.elems) :
        LET node == TopList.elems[i]
        IN (node.k = "obj" /\ PropOfNode(node, W("widgetType")) = Undefined) =>
              \A key \in BareTextKeys :
                 IsText(PropOfNode(node, key)) =>
                    \E n \in 1..Len(fields.out) :
                       fields.out[n] = EditableField(key, CurrentPath(TopName, i - 1) \o <<".">> \o key,
                                                     PropOfNode(node, key))

\* A path in bracket form: names joined by dots, some followed by `[N]`.
IsBracketForm(path) ==
  /\ \E i \in 1..Len(path) : path[i] = "["
  /\ \A i \in 1..Len(path) : path[i] = "[" => BracketIndexEnd(path, i) > 0

\* C15: for the bracket-form path p of every record of the field list,
\* resolvePath(p) resolves in the document to what p resolves to (the same
\* container, the same value), so does the path the second variant resolves,
\* and resolvePath leaves resolvePath(p) as it is.
C15_DialectEquivalence ==
  pc \in {"extracted", "supplied"} =>
     \A i \in 1..Len(modifiedFields.elems) :
        LET record == modifiedFields.elems[i]
        IN (~IsNullish(record) /\ PathOf(record).k = "str" /\ IsBracketForm(PathOf(record).s)) =>
              /\ get(heap, json, resolvePath(PathOf(record).s)) = get(heap, json, PathOf(record).s)
              /\ get(heap, json, fieldPath2(input, PathOf(record).s))
                    = get(heap, json, PathOf(record).s)
              /\ resolvePath(resolvePath(PathOf(record).s)) = resolvePath(PathOf(record).s)

\* Of the state of the component, what a refused text must leave alone.
Results(state) ==
  <<state.parsedOriginalJson, state.extractedFields, state.cleanJsonString,
    state.updatedFieldsInput, state.rebuiltJson, state.activeTab>>

\* C16: a handler that is given a text that does not parse (the original text
\* for handleExtractFields, the field text for handleRebuildJson) calls neither
\* extractEditableFields nor rebuildJsonWithUpdatedFields, sets an error
\* message, and leaves parsedOriginalJson, extractedFields, cleanJsonString,
\* updatedFieldsInput, rebuiltJson and activeTab as they were.
C16_MalformedRefused ==
  [][(\/ app'.ran = "handleExtractFields" /\ ~isValidJson(app.originalJson)
      \/ app'.ran = "handleRebuildJson" /\ ~isValidJson(app.updatedFieldsInput))
        => /\ app'.called = {}
           /\ app'.errors # ""
           /\ Results(app') = Results(app)]_vars

\* C16 witness: a document was extracted from and rebuilt, and a text that does
\* not parse has just been refused by handleExtractFields with everything that
\* was obtained before still there.
C16_Witness ==
  /\ app.ran = "handleExtractFields"
  /\ app.originalJson # <<>>
  /\ ~isValidJson(app.originalJson)
  /\ app.errors = "O JSON inserido nao e valido. Verifique a formatacao."
  /\ app.parsedOriginalJson # Null
  /\ Len(app.extractedFields.elems) > 0
  /\ app.cleanJsonString # <<>>
  /\ app.rebuiltJson # <<>>

RECURSIVE PutAt(_, _, _, _)
\* The tree with the value in the place the steps, from the i-th on, lead to;
\* the tree itself where they lead to no property or element it holds.
PutAt(tree, steps, i, value) ==
  IF i > Len(steps) THEN value
  ELSE IF tree.k = "obj" /\ KeyIndex(tree.keys, steps[i]) > 0
  THEN [tree EXCEPT !.vals[KeyIndex(tree.keys, steps[i])] = PutAt(@, steps, i + 1, value)]
  ELSE IF tree.k = "arr" /\ isIndex(steps[i]) /\ DigitsValue(steps[i]) < Len(tree.elems)
  THEN [tree EXCEPT !.elems[DigitsValue(steps[i]) + 1] = PutAt(@, steps, i + 1, value)]
  ELSE tree

RECURSIVE PutAll(_, _, _)
\* The tree with the value of every record, from the k-th on, in the place the
\* steps of its path lead to.
PutAll(tree, list, k) ==
  IF k > Len(list) THEN tree
  ELSE PutAll(PutAt(tree, StepsOf(list[k]), 1, ValueOf(list[k])), list, k + 1)

RECURSIVE FrameFrom(_, _), FrameThenRest(_, _, _)
\* From the k-th turn on, with heap h before it: a record whose normalized path
\* resolves before its turn has its value there after it, and the document
\* after the turn is the one before it with that value in that place.
FrameFrom(h, k) ==
  IF k > Len(modifiedFields.elems) THEN TRUE
  ELSE FrameThenRest(k, h, ApplyField(h, rebuiltJson, modifiedFields.elems[k]))

FrameThenRest(k, before, after) ==
  /\ (/\ ~IsNullish(modifiedFields.elems[k])
      /\ PathOf(modifiedFields.elems[k]).k = "str"
      /\ Resolves(before, modifiedFields.elems[k])) =>
        /\ HoldsValue(after, k)
        /\ Deref(after, rebuiltJson)
              = PutAt(Deref(before, rebuiltJson), StepsOf(modifiedFields.elems[k]), 1,
                      ValueOf(modifiedFields.elems[k]))
  /\ FrameFrom(after, k + 1)

\* C17: a record whose normalized path resolves in the copy has its value
\* written in that place and nothing else is changed; for the extracted list
\* with values edited, the returned document is the parsed one with the edited
\* values in the places of the records and is equal to it everywhere else.
C17_SuccessFrame ==
  /\ Returned => FrameFrom(cloneDeep(EntryHeap, json).h, 1)
  /\ pc = "rebuilt" => Deref(heap, rebuiltJson) = PutAll(input, modifiedFields.elems, 1)

\* The containers a turn has made along the path are of the kind the next step
\* asks for: where a step led to no container before the turn and leads to one
\* after it, that one is an array if and only if the next step is a
\* non-negative integer.
KindsAlong(before, after, steps) ==
  \A i \in 1..(Len(steps) - 1) :
     LET was == Along(before, SubSeq(steps, 1, i))
         made == Along(after, SubSeq(steps, 1, i))
     IN (was.k # "ref" /\ made.k = "ref") =>
           (after[made.n].k = "arr" <=> AllDigits(steps[i + 1]))

RECURSIVE KindsFrom(_, _), KindsThenRest(_, _, _)
KindsFrom(h, k) ==
  IF k > Len(modifiedFields.elems) THEN TRUE
  ELSE KindsThenRest(k, h, ApplyField(h, rebuiltJson, modifiedFields.elems[k]))

KindsThenRest(k, before, after) ==
  /\ SynthesisTurn(k, before) => KindsAlong(before, after, StepsOf(modifiedFields.elems[k]))
  /\ KindsFrom(after, k + 1)

\* C18: every container the rebuilder makes for a missing step of a path, in
\* the repair walk or in the last set, is an array if and only if the next
\* step is a non-negative integer, and an object otherwise; a next step that
\* only starts with digits gives an object.
C18_ContainerKind == Returned => KindsFrom(cloneDeep(EntryHeap, json).h, 1)

\* The setting a widget of a known kind is read from; no key for another kind.
MappedKey(widgetType) ==
  CASE widgetType = Str(W("heading")) -> W("title")
    [] widgetType = Str(W("text-editor")) -> W("editor")
    [] widgetType = Str(W("button")) -> W("text")
    [] OTHER -> <<>>

\* The steps to the widget a record was read from.
OwnerSteps(record) == SubSeq(StepsOf(record), 1, Len(StepsOf(record)) - 2)

\* C19: a heading, a text-editor or a button gives at most one record: every
\* record read from such a widget has the widgetType as its type and the
\* mapped setting (title, editor, text) as the last step of its path, its
\* value is the string that setting holds, not blank, and no other record is
\* read from the same widget; and every such widget of the walked array whose
\* mapped setting is a string that is not blank has that record.
C19_KnownKinds ==
  pc = "extracted" =>
     /\ \A n \in 1..Len(fields.out) :
           LET record == fields.out[n]
               kind == PropOf(heap, OwnerOf(record), W("widgetType"))
           IN MappedKey(kind) # <<>> =>
                 /\ PropOfNode(record, W("type")) = kind
                 /\ StepsOf(record)[Len(StepsOf(record))] = MappedKey(kind)
                 /\ StepsOf(record)[Len(StepsOf(record)) - 1] = W("settings")
                 /\ IsText(ValueOf(record))
                 /\ FieldAt(StepsOf(record)) = ValueOf(record)
                 /\ \A m \in 1..Len(fields.out) :
                       OwnerSteps(fields.out[m]) = OwnerSteps(record) => m = n
     /\ (~IsNullish(input) /\ isArray(TopList)) =>
           \A i \in 1..Len(TopList.elems) :
              LET node == TopList.elems[i]
                  kind == IF node.k = "obj" THEN PropOfNode(node, W("widgetType")) ELSE Undefined
                  settings == IF node.k = "obj" THEN PropOfNode(node, W("settings")) ELSE Undefined
              IN (/\ MappedKey(kind) # <<>>
                  /\ settings.k = "obj"
                  /\ IsText(PropOfNode(settings, MappedKey(kind)))) =>
                    \E n \in 1..Len(fields.out) :
                       fields.out[n]
                          = EditableField(kind.s,
                                          SettingsPath(CurrentPath(TopName, i - 1), MappedKey(kind)),
                                          PropOfNode(settings, MappedKey(kind)))

\* C19 witness: a heading whose settings hold a title, a blank description, a
\* caption and a text gives the record of its title and no other.
C19_Witness ==
  /\ pc = "extracted"
  /\ ~IsNullish(input)
  /\ isArray(TopList)
  /\ Len(TopList.elems) = 1
  /\ TopList.elems[1].k = "obj"
  /\ PropOfNode(TopList.elems[1], W("widgetType")) = Str(W("heading"))
  /\ PropOfNode(PropOfNode(TopList.elems[1], W("settings")), W("caption")) = Str(W("Cap"))
  /\ PropOfNode(PropOfNode(TopList.elems[1], W("settings")), W("text")) = Str(W("Go"))
  /\ fields.out = <<EditableField(W("heading"),
                                  <<"widgets", "[", "0", "]", ".", "settings", ".", "title">>,
                                  Str(W("Hello")))>>

\* A widget of a known kind whose mapped setting is a string that is not blank.
HasKnownText(node) ==
  /\ node.k = "obj"
  /\ MappedKey(PropOfNode(node, W("widgetType"))) # <<>>
  /\ PropOfNode(node, W("settings")).k = "obj"
  /\ IsText(PropOfNode(PropOfNode(node, W("settings")),
                       MappedKey(PropOfNode(node, W("widgetType")))))

\* The record is the one of that widget, whatever its path: its type and value.
IsRecordOf(record, node) ==
  /\ PropOfNode(record, W("type")) = PropOfNode(node, W("widgetType"))
  /\ ValueOf(record)
       = PropOfNode(PropOfNode(node, W("settings")), MappedKey(PropOfNode(node, W("widgetType"))))

\* The first step at which two paths differ; 0 when one leads through the other.
PartAt(a, b) ==
  IF \E i \in 1..Len(a) : i <= Len(b) /\ a[i] # b[i]
  THEN CHOOSE i \in 1..Len(a) :
         i <= Len(b) /\ a[i] # b[i] /\ SubSeq(a, 1, i - 1) = SubSeq(b, 1, i - 1)
  ELSE 0

\* Path a comes before path b in the depth-first walk: where they part, a has
\* the lower index of the same array, or a is at the settings of the node and b
\* below it, or a is in its `elements` and b in its `widgets`.
WalkedBefore(a, b) ==
  LET d == PartAt(a, b)
  IN /\ d > 0
     /\ \/ AllDigits(a[d]) /\ AllDigits(b[d]) /\ DigitsValue(a[d]) < DigitsValue(b[d])
        \/ a[d] = W("settings") /\ b[d] \in {W("elements"), W("widgets")}
        \/ a[d] = W("elements") /\ b[d] = W("widgets")

\* C20: the records come in the order of a depth-first walk: of two records
\* the earlier is the one of the lower index of a container, the one of a node
\* before those below it, the one in `elements` before the one in `widgets`;
\* and a node that has an `elements` array and a `widgets` array has both
\* walked: the widgets of known kind in either have their records, those of
\* `elements` first.
C20_EmissionOrder ==
  pc = "extracted" =>
     /\ \A m \in 1..Len(fields.out) : \A n \in (m + 1)..Len(fields.out) :
           \/ WalkedBefore(StepsOf(fields.out[m]), StepsOf(fields.out[n]))
           \/ OwnerSteps(fields.out[m]) = OwnerSteps(fields.out[n])
     /\ (~IsNullish(input) /\ isArray(TopList)) =>
           \A i \in 1..Len(TopList.elems) :
              LET node == TopList.elems[i]
                  inElements == IF node.k = "obj" THEN PropOfNode(node, W("elements")) ELSE Undefined
                  inWidgets == IF node.k = "obj" THEN PropOfNode(node, W("widgets")) ELSE Undefined
              IN (isArray(inElements) /\ isArray(inWidgets)) =>
                    \A e \in 1..Len(inElements.elems), w \in 1..Len(inWidgets.elems) :
                       (HasKnownText(inElements.elems[e]) /\ HasKnownText(inWidgets.elems[w])) =>
                          \E m \in 1..Len(fields.out) : \E n \in (m + 1)..Len(fields.out) :
                             /\ IsRecordOf(fields.out[m], inElements.elems[e])
                             /\ IsRecordOf(fields.out[n], inWidgets.elems[w])

\* The path the second variant of the rebuilder resolves first for the k-th entry.
PrimaryOf(k) == fieldPath2(input, PathOf(modifiedFields.elems[k]).s)

\* The path resolves in the document of heap h.
ResolvesAt(h, path) == get(h, rebuiltJson, path) # Undefined

\* From heap `before` to heap `after` the value of the k-th entry was written at
\* the path and nothing beside the path has changed.
WrittenAt(before, after, path, k) ==
  /\ get(after, rebuiltJson, path) = ValueOf(modifiedFields.elems[k])
  /\ KeptAround(before, after, castPath(before, rebuiltJson, path))

\* The turn of a record with primary path p: written at p where p resolves; else
\* at p with its leading `settings.` toggled where that resolves; else at p with
\* its `.N.` segments in brackets where that resolves; else nothing is changed.
FallbackTurn(k, p, before, after) ==
  IF ResolvesAt(before, p) THEN WrittenAt(before, after, p, k)
  ELSE IF ResolvesAt(before, SettingsToggled(p))
       THEN WrittenAt(before, after, SettingsToggled(p), k)
  ELSE IF ResolvesAt(before, BracketInfixes(p, 1))
       THEN WrittenAt(before, after, BracketInfixes(p, 1), k)
  ELSE Deref(after, rebuiltJson) = Deref(before, rebuiltJson)

RECURSIVE FallbackFrom(_, _), FallbackThenRest(_, _, _)
\* From the k-th turn on, with heap h before it; the heap after the last turn is
\* the one of the returned document.
FallbackFrom(h, k) ==
  IF k > Len(modifiedFields.elems) THEN Deref(h, rebuiltJson) = Deref(heap, rebuiltJson)
  ELSE \A after \in {TryField2(h, rebuiltJson, input, modifiedFields.elems[k]).h} :
          FallbackThenRest(k, h, after)

FallbackThenRest(k, before, after) ==
  /\ (~IsNullish(modifiedFields.elems[k]) /\ PathOf(modifiedFields.elems[k]).k = "str")
        => FallbackTurn(k, PrimaryOf(k), before, after)
  /\ FallbackFrom(after, k + 1)

\* C21: in the variant of the rebuilder that has getAlternatePaths, the
\* alternates are a fallback only and are tried in order: a record whose primary
\* path resolves is written there; one whose primary path does not resolve is
\* written at the first of [path with the leading `settings.` toggled, path with
\* every `.N.` turned into `[N].`] that resolves, and nowhere else; when none
\* resolves the document is not changed by the record.
C21_AlternatesInOrder ==
  Returned => \A copied \in {cloneDeep(EntryHeap, json).h} : FallbackFrom(copied, 1)

\* C21 witness: the document that has `a[0].b` as a key of its own and the same
\* field under settings, and a record for `a.0.b`: the primary path does not
\* resolve, both alternates do, the value is under settings and the key of its
\* own holds what it held.
C21_Witness ==
  /\ pc = "applied"
  /\ Len(modifiedFields.elems) = 1
  /\ IsRecord(modifiedFields.elems[1])
  /\ PathOf(modifiedFields.elems[1]).s = <<"a", ".", "0", ".", "b">>
  /\ \E copied \in {cloneDeep(EntryHeap, json).h} :
        /\ ~ResolvesAt(copied, PrimaryOf(1))
        /\ ResolvesAt(copied, SettingsToggled(PrimaryOf(1)))
        /\ ResolvesAt(copied, BracketInfixes(PrimaryOf(1), 1))
  /\ get(heap, rebuiltJson, <<"settings", ".", "a", ".", "0", ".", "b">>) = Str(W("New"))
  /\ get(heap, rebuiltJson, <<"a", "[", "0", "]", ".", "b">>) = Str(W("k"))

\* The entry is a record with a path: an object whose path is a string.
HasPath(entry) == ~IsNullish(entry) /\ PathOf(entry).k = "str"

\* The k-th entry addresses the path of an earlier record of the list.
AddressedBefore(k) ==
  /\ HasPath(modifiedFields.elems[k])
  /\ \E j \in 1..(k - 1) :
        /\ HasPath(modifiedFields.elems[j])
        /\ resolvePath(PathOf(modifiedFields.elems[j]).s)
              = resolvePath(PathOf(modifiedFields.elems[k]).s)

RECURSIVE OrderFrom(_, _), OrderThenRest(_, _, _)
\* From the k-th turn on, with heap h before it: a record that addresses the
\* path of an earlier one has its own value there when its turn is over; the
\* heap after the last turn is the one of the returned document.
OrderFrom(h, k) ==
  IF k > Len(modifiedFields.elems) THEN Deref(h, rebuiltJson) = Deref(heap, rebuiltJson)
  ELSE \A after \in {ApplyField(h, rebuiltJson, modifiedFields.elems[k])} :
          OrderThenRest(k, h, after)

OrderThenRest(k, before, after) ==
  /\ AddressedBefore(k) => HoldsValue(after, k)
  /\ OrderFrom(after, k + 1)

\* C22: the records are applied in list order, each in full before the next:
\* the returned document is the one the turns give one after the other; a record
\* that addresses the path of an earlier record leaves its own value there, so
\* that the returned document holds the value of the later of two such
\* records; and the call repeated on the same document and list returns an
\* equal document.
C22_ListOrder ==
  Returned =>
     /\ \A copied \in {cloneDeep(EntryHeap, json).h} : OrderFrom(copied, 1)
     /\ (Len(modifiedFields.elems) = 2 /\ AddressedBefore(2)) => HoldsValue(heap, 2)
     /\ RebuildOf(modifiedFields.elems) = Deref(heap, rebuiltJson)

\* A string, a number or a boolean.
IsScalar(v) == v.k \in {"str", "num", "bool"}

\* Every scalar the document of heap `before` holds on a proper prefix of the
\* steps is what the document of heap `after` holds there.
ScalarsKept(before, after, steps) ==
  \A i \in 1..(Len(steps) - 1) :
     IsScalar(Along(before, SubSeq(steps, 1, i)))
        => Along(after, SubSeq(steps, 1, i)) = Along(before, SubSeq(steps, 1, i))

RECURSIVE ScalarsFrom(_, _), ScalarsThenRest(_, _, _)
\* From the k-th turn on, with heap h before it: the turn of a record whose path
\* does not resolve keeps the scalars on the way.
ScalarsFrom(h, k) ==
  IF k > Len(modifiedFields.elems) THEN TRUE
  ELSE \A after \in {ApplyField(h, rebuiltJson, modifiedFields.elems[k])} :
          ScalarsThenRest(k, h, after)

ScalarsThenRest(k, before, after) ==
  /\ (HasPath(modifiedFields.elems[k]) /\ ~Resolves(before, modifiedFields.elems[k]))
        => ScalarsKept(before, after, StepsOf(modifiedFields.elems[k]))
  /\ ScalarsFrom(after, k + 1)

\* C23: repairing never destroys what is there: when the path of a record does
\* not resolve, every string, number or boolean the document holds on a proper
\* prefix of the path is still there, unchanged, once the record has had its
\* turn (`widgets[0].settings.title.x` leaves the string at
\* `widgets[0].settings.title`).
C23_ScalarsSurvive ==
  Returned => \A copied \in {cloneDeep(EntryHeap, json).h} : ScalarsFrom(copied, 1)

\* C24: the field list on the page is the one of the document the rebuild will
\* be run against: whenever parsedOriginalJson and cleanJsonString are both
\* set, the extraction of parsedOriginalJson returns and cleanJsonString is the
\* text of its records.
C24_ListOfDocument ==
  (app.parsedOriginalJson # Null /\ app.cleanJsonString # <<>>) =>
     \A found \in {extractEditableFields(app.parsedOriginalJson)} :
        ~found.threw /\ app.cleanJsonString = stringify(Arr(found.out))

\* What the path of the i-th extracted record resolves to in the returned
\* document.
ResolvedAfter(i) == get(heap, rebuiltJson, resolvePath(PathOf(fields.out[i]).s))

\* What the path of the i-th extracted record resolves to when the i-th entry of
\* the field list is the only one applied to the copy.
ResolvedAlone(copied, i) ==
  get(ApplyField(copied, rebuiltJson, modifiedFields.elems[i]), rebuiltJson,
      resolvePath(PathOf(fields.out[i]).s))

\* C25: no two records extracted from a document have the same path, nor paths
\* that spell the same steps; and after a rebuild with edited values, what the
\* path of a record resolves to is what the entry of that record alone gives:
\* the edit of another record does not change it.
C25_DistinctPaths ==
  /\ Extracted =>
        \A i, j \in 1..Len(fields.out) :
           i # j => /\ PathOf(fields.out[i]) # PathOf(fields.out[j])
                    /\ StepsOf(fields.out[i]) # StepsOf(fields.out[j])
  /\ pc = "rebuilt" =>
        \A copied \in {cloneDeep(EntryHeap, json).h} :
           \A i \in 1..Len(fields.out) : ResolvedAfter(i) = ResolvedAlone(copied, i)

\* C25 witness: two widgets with a record each, the first edited and the second
\* not, and the second path resolves in the returned document to what it
\* resolved to in the parsed one.
C25_Witness ==
  /\ pc = "rebuilt"
  /\ Len(fields.out) = 2
  /\ ValueOf(modifiedFields.elems[1]) # ValueOf(fields.out[1])
  /\ ValueOf(modifiedFields.elems[2]) = ValueOf(fields.out[2])
  /\ ResolvedAfter(1) = ValueOf(modifiedFields.elems[1])
  /\ ResolvedAfter(2) = ValueOf(fields.out[2])

====
